---- MODULE Spec2Model ----
(***************************************************************************)
(* Crypto arbitrage engine: the detection pipeline (ArbitrageDetector and  *)
(* its pricers over the MarketDataManager index) and the risk gate         *)
(* (RiskManager).                                                          *)
(*                                                                         *)
(* Specifications:                                                         *)
(*   Spec           the engine as main() wires it                          *)
(*   SpecCleanup    the detector over one venue, clock read to the tick    *)
(*   SpecRisk       the risk manager called directly                       *)
(*   SpecBest       get_best_prices over the indexes the parsers build     *)
(*   SpecBook       the order books under a writer and a reader            *)
(*   SpecStream     the adapters' message handlers writing to the index    *)
(*   SpecAdapter    the adapters' connections under start() and stop()     *)
(*   SpecLifecycle  start() and stop() of a component, called by threads   *)
(*   SpecExhausted  get_best_prices while adapters fail for good           *)
(*   SpecSubscribe  the OKX subscriptions across connections               *)
(*   SpecDepth      the Binance depth cache under depth updates            *)
(*   SpecOrderBook  OrderBook::update, is_valid and calculate_vwap         *)
(*   SpecBus        notify_callbacks, one callback at a time               *)
(*   SpecRiskLock   the risk manager's calls that take positions_mutex_    *)
(*   SpecJoin       one adapter thread by thread: handlers and joins       *)
(*   SpecTrade      tickers, trades and funding rates of one instrument    *)
(*   SpecPool       the thread pool: submit, workers, wait_all, stop       *)
(*   SpecMemory     the global memory pools: allocate and deallocate       *)
(*                                                                         *)
(* Number representation.  The program computes in double.  The model     *)
(* computes the same expressions exactly, over integers and ratios:        *)
(*   prices         integer price units (ticker quotes are even, so that   *)
(*                  a mid price (bid+ask)/2 is again an integer)           *)
(*   quantities     integer units                                          *)
(*   funding rates  integer basis points (1 = 0.0001)                      *)
(*   thresholds     integer thousandths of a basis point (1 = 0.001 bps)   *)
(*   risk scores    integer hundredths (70 = 0.70)                         *)
(*   profits        ratios [n |-> numerator, d |-> denominator]; d = 0 is  *)
(*                  the NaN a 0/0 division produces                        *)
(***************************************************************************)
EXTENDS Integers, Sequences, FiniteSets, TLC

VARIABLES
    market_data_,            \* MarketDataManager::market_data_
    updates,                 \* number of market-data events handled so far
    min_profit_threshold_,   \* ArbitrageDetector::min_profit_threshold_
    max_position_size_,      \* ArbitrageDetector::max_position_size_
    current_opportunities_,  \* ArbitrageDetector::current_opportunities_
    callbacks_,              \* ArbitrageDetector::callbacks_ (consumer ids)
    running_,                \* ArbitrageDetector::running_
    main_pc,                 \* position of main() in its start-up sequence
    pc,                      \* position of the detection thread in its loop
    cycles,                  \* detection passes begun
    total_opportunities_,    \* ArbitrageDetector::total_opportunities_
    expired_opportunities_,  \* ArbitrageDetector::expired_opportunities_
    now,                     \* the clock, in ticks (TicksPerMs to the ms)
    pass_start,              \* detection_loop's `start` of the current pass
    emitted,                 \* history: every opportunity emitted, with the
                             \* threshold in force when it was emitted
    delivered,               \* history: what each consumer callback received,
                             \* with the verdict its risk check reached
    positions_,              \* RiskManager::positions_
    position_limits_,        \* RiskManager::position_limits_
    exchange_limits_,        \* RiskManager::exchange_limits_
    max_portfolio_exposure_, \* RiskManager::max_portfolio_exposure_
    riskCall,                \* the last direct call of check_opportunity_risk
    bestCall,                \* the last direct call of get_best_prices
    order_books_,            \* MarketDataManager::order_books_
    order_book,              \* an OrderBook shared by a writer and a reader
    book_writer,             \* the thread inside handle_orderbook_update
    completed_update,        \* history: per key, the last update whose
                             \* handle_orderbook_update has returned
    bookView,                \* the last result of get_order_book
    book_reader,             \* the thread inside get_mid_price
    midRead,                 \* the last result of get_mid_price
    state_,                  \* ExchangeBase::state_, per adapter
    io_thread,               \* per adapter: its io_thread_ runs the client
    heartbeat_running_,      \* ExchangeBase::heartbeat_running_, per adapter
    heartbeat_thread,        \* per adapter: position of its heartbeat thread
    since_heartbeat,         \* per adapter: heartbeat intervals elapsed
                             \* since last_heartbeat_
    reconnect_count_,        \* ExchangeBase::reconnect_count_, per adapter
    reconnect_thread,        \* per adapter: position of the detached thread
                             \* on_close started
    mdm_running_,            \* MarketDataManager::running_
    mdm_pc,                  \* the host's position: which of the manager's
                             \* start() and stop() have returned
    lastWrite,               \* history: the last write made for an adapter
    component_running_,      \* running_ of a component under start/stop
    thread_handle,           \* detection_thread_ / stats_thread_: the
                             \* thread it owns (0: none)
    live_threads,            \* worker threads started and not yet finished
    threads_started,         \* worker threads created so far
    callers,                 \* per calling thread: its position in start()
                             \* or stop()
    lastReturn,              \* history: the last return of start() or stop()
    pending_subscriptions_,  \* OKXWebSocket::pending_subscriptions_
    sent_subscriptions,      \* history: per subscription, the connection on
                             \* which its subscribe message was last sent
    depth_cache_,            \* BinanceWebSocket::depth_cache_["BTC-USDT"]
    depthCall,               \* history: the last parse_depth_update
    vwapCall,                \* history: the last call of calculate_vwap
    notifier,                \* the detection thread inside notify_callbacks
    consumer_state,          \* per consumer: what its callback is doing
    callback_errors,         \* history: "Callback error" lines logged
    positions_mutex_,        \* RiskManager::positions_mutex_: its owner
    risk_callers,            \* per thread: its position in a RiskManager call
    riskReturn,              \* history: the last RiskManager call that ended
    okx,                     \* one adapter, thread by thread: its fields
    okx_threads,             \* its threads: where each one is
    okx_log,                 \* history: connections lost, reconnect() calls
    pool,                    \* ThreadPool: its fields
    pool_threads,            \* its workers and callers: where each one is
    pool_log,                \* history: tasks accepted, rejected, executed
    memory_pools,            \* GlobalMemoryPools: each fixed pool's fields
    held,                    \* the blocks the callers hold, with their sizes
    heap_blocks              \* the blocks ::operator new has handed out

detVars == <<min_profit_threshold_, max_position_size_, current_opportunities_,
             callbacks_, running_, main_pc, pc, cycles, pass_start, total_opportunities_,
             expired_opportunities_, emitted, delivered>>
riskVars == <<positions_, position_limits_, exchange_limits_,
              max_portfolio_exposure_, riskCall>>
engineVars == <<market_data_, updates, now, detVars, riskVars>>
bestVars == <<bestCall>>
bookVars == <<order_books_, order_book, book_writer, completed_update, bookView,
              book_reader, midRead>>
adapterVars == <<state_, io_thread, heartbeat_running_, heartbeat_thread,
                 since_heartbeat, reconnect_count_, reconnect_thread,
                 mdm_running_, mdm_pc, lastWrite>>
lifeVars == <<component_running_, thread_handle, live_threads, threads_started,
              callers, lastReturn>>
subVars == <<pending_subscriptions_, sent_subscriptions>>
depthVars == <<depth_cache_, depthCall>>
vwapVars == <<vwapCall>>
busVars == <<notifier, consumer_state, callback_errors>>
lockVars == <<positions_mutex_, risk_callers, riskReturn>>
joinVars == <<okx, okx_threads, okx_log>>
poolVars == <<pool, pool_threads, pool_log>>
memVars == <<memory_pools, held, heap_blocks>>
moreVars == <<lockVars, joinVars, poolVars, memVars>>
feedVars == <<subVars, depthVars, vwapVars, busVars, moreVars>>
sideVars == <<bestVars, bookVars, adapterVars, lifeVars, feedVars>>
vars == <<engineVars, sideVars>>

----------------------------------------------------------------------------
(* Bounds of the model *)

\* Feed updates plus detection passes explored in one behaviour
MaxEvents == 3

\* Resolution of the clock: the program's clock counts nanoseconds and its
\* ttl comparison counts whole milliseconds.
TicksPerMs == 2
\* Reconnections one adapter goes through
MaxReconnects == 11
\* Worker threads one component creates
MaxThreads == 2
MaxLosses == 3
MaxTasks == 2
NumBlocks == 2
MaxHeapBlocks == 2
SizeBits == 16

\* TRUE while the behaviour may still take a feed update or begin a pass
WithinBudget(u, c) == u + c < MaxEvents

----------------------------------------------------------------------------
(* Program constants *)

SMALL_BLOCK_SIZE == 64
MEDIUM_BLOCK_SIZE == 512
LARGE_BLOCK_SIZE == 4096

MIN_PROFIT_THRESHOLD_DEFAULT == 1
MAX_POSITION_SIZE_USD == 100000
MAX_PORTFOLIO_EXPOSURE == 1000000
TAKER_FEE_BPS == 4
MAX_FUNDING_RATE_EXPOSURE == 100
MIN_LIQUIDITY_SCORE == 70
MAX_EXECUTION_RISK == 70
DEFAULT_POSITION_LIMIT == 50000
OPPORTUNITY_TTL_MS == 500
DETECTION_PERIOD_MS == 100
FUNDING_TTL_MS == 28800000
SYNTHETIC_FEE_BPS == 10
FUNDING_PERIODS_PER_YEAR == 1095
MAX_RECONNECT_ATTEMPTS == 10
MAX_ORDER_BOOK_DEPTH == 50
HEARTBEAT_TIMEOUT_INTERVALS == 2
DBL_MAX == 2000000000

Exchanges == <<"OKX", "BINANCE", "BYBIT">>
ExchangeSet == {Exchanges[i] : i \in 1..Len(Exchanges)}
DetectSymbols == <<"BTC-USDT", "ETH-USDT", "SOL-USDT">>
SymbolSet == {DetectSymbols[i] : i \in 1..Len(DetectSymbols)}
InstrumentTypes == {"SPOT", "PERPETUAL"}

NoData == [none |-> TRUE]
Keys == SymbolSet \X ExchangeSet \X InstrumentTypes

----------------------------------------------------------------------------
(* Exact comparison of ratios, by the Euclidean expansion: no product is   *)
(* formed, so no intermediate value leaves the integer range.              *)

Rat(n, d) == [n |-> n, d |-> d]
IsNaN(x) == x.d = 0
Abs(x) == IF x < 0 THEN -x ELSE x

RECURSIVE PosLess(_, _, _, _)
PosLess(a, b, c, d) ==
    \* a/b < c/d for a, c >= 0 and b, d > 0
    LET qa == a \div b
        qc == c \div d
        ra == a % b
        rc == c % d
    IN  IF qa # qc THEN qa < qc
        ELSE IF rc = 0 THEN FALSE
        ELSE IF ra = 0 THEN TRUE
        ELSE PosLess(d, rc, b, ra)

RatLess(x, y) ==
    \* x < y; a comparison with NaN is false, as in IEEE arithmetic
    IF IsNaN(x) \/ IsNaN(y) THEN FALSE
    ELSE IF x.n < 0 /\ y.n >= 0 THEN TRUE
    ELSE IF x.n >= 0 /\ y.n < 0 THEN FALSE
    ELSE IF x.n < 0 THEN PosLess(-y.n, y.d, -x.n, x.d)
    ELSE PosLess(x.n, x.d, y.n, y.d)

RatGreater(x, y) == RatLess(y, x)
RatLeq(x, y) == ~IsNaN(x) /\ ~IsNaN(y) /\ ~RatLess(y, x)
RatGeq(x, y) == RatLeq(y, x)

Min(a, b) == IF a < b THEN a ELSE b

----------------------------------------------------------------------------
(* Market data index *)

MarketData(bid, ask, bsz, asz, fr) ==
    [bid_price |-> bid, ask_price |-> ask, bid_size |-> bsz, ask_size |-> asz,
     funding_rate |-> fr]

mid_price(d) == (d.bid_price + d.ask_price) \div 2

\* The normalized records the venue adapters deliver in this model.
SpotRecords ==
    { MarketData(9990, 10000, 1, 2, 0),
      MarketData(10010, 10020, 3, 1, 0) }
PerpRecords ==
    { MarketData(10002, 10004, 1, 1, 5),
      MarketData(10000, 10002, 2, 1, -2) }
RecordsOf(type) == IF type = "SPOT" THEN SpotRecords ELSE PerpRecords
FeedSymbols == {"BTC-USDT"}
\* The venues whose adapters are connected and report; the third stays silent
FeedExchanges == {"OKX", "BINANCE"}
\* The venue adapters added to the market data manager
Adapters == FeedExchanges

get_market_data(md, key) == md[key]
has_market_data(md, key) == md[key] # NoData

\* handle_market_data: the record replaces whatever the key held.  Venue
\* adapters deliver once main() has started the market data manager.
HandleMarketData(key, data) ==
    /\ main_pc \in {"feeding", "detecting", "stopping"}
    /\ WithinBudget(updates, cycles)
    /\ market_data_' = [market_data_ EXCEPT ![key] = data]
    /\ updates' = updates + 1
    /\ UNCHANGED <<now, detVars, riskVars, sideVars>>

----------------------------------------------------------------------------
(* MarketDataManager::get_best_prices: highest bid and lowest ask over the *)
(* venues, scanned in the fixed order OKX, BINANCE, BYBIT.                  *)

NoBest ==
    [found |-> FALSE, best_bid |-> 0, best_ask |-> DBL_MAX,
     best_bid_exchange |-> "UNINIT", best_ask_exchange |-> "UNINIT",
     best_bid_size |-> 0, best_ask_size |-> 0]

RECURSIVE BestScan(_, _, _, _, _)
BestScan(md, symbol, type, i, prices) ==
    IF i > Len(Exchanges) THEN prices
    ELSE LET exchange == Exchanges[i]
             key == <<symbol, exchange, type>>
         IN  IF ~has_market_data(md, key)
             THEN BestScan(md, symbol, type, i + 1, prices)
             ELSE LET data == get_market_data(md, key)
                      p1 == IF data.bid_price > prices.best_bid
                            THEN [prices EXCEPT !.best_bid = data.bid_price,
                                                !.best_bid_exchange = exchange,
                                                !.best_bid_size = data.bid_size]
                            ELSE prices
                      p2 == IF data.ask_price < p1.best_ask
                            THEN [p1 EXCEPT !.best_ask = data.ask_price,
                                            !.best_ask_exchange = exchange,
                                            !.best_ask_size = data.ask_size]
                            ELSE p1
                  IN  BestScan(md, symbol, type, i + 1, [p2 EXCEPT !.found = TRUE])

get_best_prices(md, symbol, type) == BestScan(md, symbol, type, 1, NoBest)

----------------------------------------------------------------------------
(* Opportunities *)

Leg(symbol, exchange, side, price, quantity, type, synthetic) ==
    [symbol |-> symbol, exchange |-> exchange, side |-> side, price |-> price,
     quantity |-> quantity, type |-> type, is_synthetic |-> synthetic]

\* Values a field that the code never assigns may hold.
Indeterminate == {0, 90}

calculate_execution_risk(legs) ==
    LET cross_exchange == \E i \in 1..Len(legs) : legs[i].exchange # legs[1].exchange
        synthetic == Cardinality({i \in 1..Len(legs) : legs[i].is_synthetic})
    IN  Min((IF cross_exchange THEN 30 ELSE 0) + 20 * synthetic, 100)

create_spot_opportunity(symbol, buy_exchange, sell_exchange, buy_data, sell_data, ts, ttl, max_position_size) ==
    LET max_quantity == Min(buy_data.ask_size, sell_data.bid_size)
        buy_price == buy_data.ask_price
        sell_price == sell_data.bid_price
        legs == << Leg(symbol, buy_exchange, "BUY", buy_price, max_quantity,
                       "SPOT", FALSE),
                   Leg(symbol, sell_exchange, "SELL", sell_price, max_quantity,
                       "SPOT", FALSE) >>
        \* gross_profit - fees, over the common denominator 10000
        profit_e4 == ((sell_price - buy_price) * 10000
                      - (buy_price + sell_price) * TAKER_FEE_BPS) * max_quantity
        expected_profit == Rat(profit_e4, 10000)
        required_capital == buy_price * max_quantity
    IN  [id |-> <<"SPOT", ts>>,
         timestamp |-> ts,
         legs |-> legs,
         expected_profit |-> expected_profit,
         \* (expected_profit / (buy_price * max_quantity)) * 100
         profit_percentage |-> Rat(profit_e4, 100 * required_capital),
         required_capital |-> required_capital,
         execution_risk |-> calculate_execution_risk(legs),
         funding_risk |-> 0,
         liquidity_score |-> 90,
         ttl_ms |-> ttl,
         is_executable |-> /\ RatGreater(expected_profit, Rat(0, 1))
                           /\ required_capital <= max_position_size]

\* net_profit_bps of detect_spot_arbitrage: spread_bps - TAKER_FEE_BPS * 2
SpotNetProfitBps(prices) ==
    Rat((prices.best_bid - prices.best_ask) * 10000
        - 2 * TAKER_FEE_BPS * prices.best_ask, prices.best_ask)

Threshold(thr) == Rat(thr, 1000)

SpotEmits(prices, thr) == RatGreater(SpotNetProfitBps(prices), Threshold(thr))

\* One iteration of the loop of detect_spot_arbitrage: the opportunities
\* (none or one) emitted for a symbol.
SpotFor(md, symbol, thr, ts, max_position_size) ==
    LET prices == get_best_prices(md, symbol, "SPOT")
    IN  IF ~prices.found THEN <<>>
        ELSE IF prices.best_bid_exchange = prices.best_ask_exchange THEN <<>>
        ELSE IF ~SpotEmits(prices, thr) THEN <<>>
        ELSE LET buy_key == <<symbol, prices.best_ask_exchange, "SPOT">>
                 sell_key == <<symbol, prices.best_bid_exchange, "SPOT">>
             IN  IF has_market_data(md, buy_key) /\ has_market_data(md, sell_key)
                 THEN << create_spot_opportunity(symbol,
                             prices.best_ask_exchange, prices.best_bid_exchange,
                             get_market_data(md, buy_key),
                             get_market_data(md, sell_key),
                             ts, OPPORTUNITY_TTL_MS, max_position_size) >>
                 ELSE <<>>

RECURSIVE SpotScan(_, _, _, _, _)
SpotScan(md, i, thr, ts, max_position_size) ==
    IF i > Len(DetectSymbols) THEN <<>>
    ELSE SpotFor(md, DetectSymbols[i], thr, ts, max_position_size)
         \o SpotScan(md, i + 1, thr, ts, max_position_size)

detect_spot_arbitrage(md, thr, ts, max_position_size) ==
    SpotScan(md, 1, thr, ts, max_position_size)

----------------------------------------------------------------------------
(* Synthetic pricers *)

get_funding_rate(md, symbol, exchange) ==
    LET key == <<symbol, exchange, "PERPETUAL">>
    IN  IF has_market_data(md, key) THEN get_market_data(md, key).funding_rate
        ELSE 0

\* 10000 * 365 * 3: a funding rate of f bps is f / 10000, and the adjustment
\* of MultiLegSyntheticPricer::calculate_synthetic_price is
\* 1 - (f / 10000) / 365 / 3 = (FundingDen - f) / FundingDen.
FundingDen == 10000 * FUNDING_PERIODS_PER_YEAR

\* MultiLegSyntheticPricer::calculate_synthetic_price(symbol, SPOT) as the
\* pair (best perpetual bid, funding rate at that bid's venue): the price is
\* bid * (FundingDen - rate) / FundingDen, and 0.0 when no venue has the
\* perpetual.
calculate_synthetic_price(md, symbol) ==
    LET perp_prices == get_best_prices(md, symbol, "PERPETUAL")
    IN  IF perp_prices.found
        THEN [bid |-> perp_prices.best_bid,
              rate |-> get_funding_rate(md, symbol, perp_prices.best_bid_exchange)]
        ELSE [bid |-> 0, rate |-> 0]

\* mispricing = synthetic_spot - spot mid, as a numerator over FundingDen:
\* bid * (FundingDen - rate) - mid * FundingDen.
MispricingNum(syn, spot_mid) == (syn.bid - spot_mid) * FundingDen - syn.bid * syn.rate

\* mispricing_bps = (mispricing / spot mid) * 10000
MispricingBps(syn, spot_mid) ==
    Rat(MispricingNum(syn, spot_mid), FUNDING_PERIODS_PER_YEAR * spot_mid)

AbsRat(x) == Rat(Abs(x.n), x.d)

SyntheticEmits(syn, spot_mid, thr) ==
    RatGreater(AbsRat(MispricingBps(syn, spot_mid)), Threshold(thr))

\* The body of the innermost loop of find_arbitrage_opportunities.
SyntheticFor(md, symbol, spot_exchange, perp_exchange, thr) ==
    LET spot_key == <<symbol, spot_exchange, "SPOT">>
        perp_key == <<symbol, perp_exchange, "PERPETUAL">>
    IN  IF ~(has_market_data(md, spot_key) /\ has_market_data(md, perp_key))
        THEN <<>>
        ELSE LET spot_data == get_market_data(md, spot_key)
                 perp_data == get_market_data(md, perp_key)
                 synthetic_spot == calculate_synthetic_price(md, symbol)
                 spot_mid == mid_price(spot_data)
             IN  IF ~SyntheticEmits(synthetic_spot, spot_mid, thr) THEN <<>>
                 ELSE << [symbol |-> symbol,
                          spot_type |-> "SPOT",
                          synthetic_type |-> "PERPETUAL",
                          spot_exchange |-> spot_exchange,
                          synthetic_exchange |-> perp_exchange,
                          spot_price |-> spot_mid,
                          synthetic_price |-> mid_price(perp_data),
                          fair_value |-> synthetic_spot,
                          mispricing_bps |-> MispricingBps(synthetic_spot, spot_mid),
                          \* std::abs(mispricing_bps) - 10
                          expected_profit_bps |->
                              Rat(Abs(MispricingNum(synthetic_spot, spot_mid))
                                  - SYNTHETIC_FEE_BPS * FUNDING_PERIODS_PER_YEAR * spot_mid,
                                  FUNDING_PERIODS_PER_YEAR * spot_mid),
                          max_size |-> Min(spot_data.bid_size, perp_data.ask_size),
                          funding_impact |-> get_funding_rate(md, symbol, perp_exchange),
                          execution_risk |-> 30] >>

RECURSIVE SyntheticScan(_, _, _)
SyntheticScan(md, n, thr) ==
    \* n runs over symbol x spot venue x perpetual venue, perpetual venue fastest
    LET ne == Len(Exchanges)
        total == Len(DetectSymbols) * ne * ne
    IN  IF n >= total THEN <<>>
        ELSE SyntheticFor(md, DetectSymbols[(n \div (ne * ne)) + 1],
                          Exchanges[((n \div ne) % ne) + 1],
                          Exchanges[(n % ne) + 1], thr)
             \o SyntheticScan(md, n + 1, thr)

find_arbitrage_opportunities(md, thr) == SyntheticScan(md, 0, thr)

\* The opportunity detect_synthetic_arbitrage builds from one pricer result.
SyntheticOpportunity(arb, ts, ttl) ==
    [id |-> <<"SYNTHETIC", ts>>,
     timestamp |-> ts,
     legs |-> << Leg(arb.symbol, arb.spot_exchange, "BUY", arb.spot_price,
                     arb.max_size, arb.spot_type, FALSE),
                 Leg(arb.symbol, arb.synthetic_exchange, "SELL", arb.synthetic_price,
                     arb.max_size, arb.synthetic_type, TRUE) >>,
     \* expected_profit_bps / 10000 * spot_price * max_size
     expected_profit |-> Rat(arb.expected_profit_bps.n * arb.max_size, FundingDen),
     \* expected_profit_bps / 100
     profit_percentage |-> Rat(arb.expected_profit_bps.n, 100 * arb.expected_profit_bps.d),
     required_capital |-> arb.spot_price * arb.max_size,
     execution_risk |-> arb.execution_risk,
     funding_risk |-> arb.funding_impact,
     liquidity_score |-> 80,
     ttl_ms |-> ttl,
     is_executable |-> TRUE]

RECURSIVE MapSynthetic(_, _, _)
MapSynthetic(arbs, ts, ttl) ==
    IF arbs = <<>> THEN <<>>
    ELSE <<SyntheticOpportunity(Head(arbs), ts, ttl)>> \o MapSynthetic(Tail(arbs), ts, ttl)

detect_synthetic_arbitrage(md, thr, ts) ==
    MapSynthetic(find_arbitrage_opportunities(md, thr), ts, OPPORTUNITY_TTL_MS)

----------------------------------------------------------------------------
(* PerpetualPricer::find_funding_arbitrage *)

\* The funding_rates vector: one entry per venue, in venue order; a venue
\* without the perpetual contributes get_funding_rate's 0.0.
FundingRates(md, symbol) ==
    [i \in 1..Len(Exchanges) |->
        [exchange |-> Exchanges[i], rate |-> get_funding_rate(md, symbol, Exchanges[i])]]

\* std::max_element / std::min_element: the first greatest / smallest entry
MaxElement(rates) ==
    CHOOSE i \in 1..Len(rates) :
        /\ \A j \in 1..Len(rates) : rates[j].rate <= rates[i].rate
        /\ \A j \in 1..(i - 1) : rates[j].rate < rates[i].rate
MinElement(rates) ==
    CHOOSE i \in 1..Len(rates) :
        /\ \A j \in 1..Len(rates) : rates[j].rate >= rates[i].rate
        /\ \A j \in 1..(i - 1) : rates[j].rate > rates[i].rate

FundingSpreadBps(md, symbol) ==
    LET rates == FundingRates(md, symbol)
    IN  rates[MaxElement(rates)].rate - rates[MinElement(rates)].rate

FundingEmits(md, symbol, thr) ==
    RatGreater(Rat(FundingSpreadBps(md, symbol), 1), Threshold(thr))

\* One iteration of the loop over the symbols.  required_capital is assigned
\* only when the long venue has market data for the perpetual; otherwise the
\* field of the local FundingArbitrage keeps an indeterminate value, `junk`.
FundingFor(md, symbol, thr, junk) ==
    LET rates == FundingRates(md, symbol)
        max_it == rates[MaxElement(rates)]
        min_it == rates[MinElement(rates)]
        key == <<symbol, min_it.exchange, "PERPETUAL">>
    IN  IF ~FundingEmits(md, symbol, thr) THEN <<>>
        ELSE << [symbol |-> symbol,
                 long_exchange |-> min_it.exchange,
                 short_exchange |-> max_it.exchange,
                 long_funding_rate |-> min_it.rate,
                 short_funding_rate |-> max_it.rate,
                 funding_spread |-> max_it.rate - min_it.rate,
                 \* funding_spread * 365 * 3, the spread being bps / 10000
                 annualized_return |->
                     Rat((max_it.rate - min_it.rate) * FUNDING_PERIODS_PER_YEAR, 10000),
                 required_capital |->
                     IF has_market_data(md, key)
                     THEN mid_price(get_market_data(md, key)) * 2
                     ELSE junk] >>

RECURSIVE FundingScan(_, _, _, _)
FundingScan(md, i, thr, junk) ==
    IF i > Len(DetectSymbols) THEN <<>>
    ELSE FundingFor(md, DetectSymbols[i], thr, junk)
         \o FundingScan(md, i + 1, thr, junk)

find_funding_arbitrage(md, thr, junk) == FundingScan(md, 1, thr, junk)

\* The opportunity detect_funding_arbitrage builds from one pricer result.
\* execution_risk and liquidity_score are never assigned there: they hold
\* what the opportunity was constructed with, `unset_risk` and `unset_liq`.
FundingOpportunity(arb, ts, unset_risk, unset_liq) ==
    [id |-> <<"FUNDING", ts>>,
     timestamp |-> ts,
     legs |-> << Leg(arb.symbol, arb.long_exchange, "BUY", 0, 1, "PERPETUAL", FALSE),
                 Leg(arb.symbol, arb.short_exchange, "SELL", 0, 1, "PERPETUAL", FALSE) >>,
     \* funding_spread * required_capital
     expected_profit |-> Rat(arb.funding_spread * arb.required_capital, 10000),
     profit_percentage |-> arb.annualized_return,
     required_capital |-> arb.required_capital,
     execution_risk |-> unset_risk,
     funding_risk |-> arb.funding_spread,
     liquidity_score |-> unset_liq,
     ttl_ms |-> FUNDING_TTL_MS,
     is_executable |-> TRUE]

RECURSIVE MapFunding(_, _, _, _)
MapFunding(arbs, ts, unset_risk, unset_liq) ==
    IF arbs = <<>> THEN <<>>
    ELSE <<FundingOpportunity(Head(arbs), ts, unset_risk, unset_liq)>>
         \o MapFunding(Tail(arbs), ts, unset_risk, unset_liq)

detect_funding_arbitrage(md, thr, ts, junk, unset_risk, unset_liq) ==
    MapFunding(find_funding_arbitrage(md, thr, junk), ts, unset_risk, unset_liq)

----------------------------------------------------------------------------
(* RiskManager *)

\* Symbols a position or a leg may name: the three with a constructor limit,
\* and one the constructor sets no limit for.
RiskSymbols == SymbolSet \cup {"XRP-USDT"}
PositionKeys == RiskSymbols \X ExchangeSet

PositionInfo(symbol, exchange, side, quantity, current_price, type) ==
    [symbol |-> symbol, exchange |-> exchange, side |-> side, quantity |-> quantity,
     current_price |-> current_price, type |-> type]

\* position_limits_ and exchange_limits_ are maps: a key the map does not
\* hold is outside the DOMAIN.
ConstructorPositionLimits ==
    [s \in SymbolSet |->
        CASE s = "BTC-USDT" -> 10
          [] s = "ETH-USDT" -> 100
          [] s = "SOL-USDT" -> 1000]
ConstructorExchangeLimits ==
    [e \in ExchangeSet |->
        CASE e = "OKX" -> 300000
          [] e = "BINANCE" -> 400000
          [] e = "BYBIT" -> 300000]

RECURSIVE SumOver(_, _)
SumOver(f, S) ==
    IF S = {} THEN 0
    ELSE LET x == CHOOSE y \in S : TRUE IN f[x] + SumOver(f, S \ {x})

HeldKeys(positions) == {k \in PositionKeys : positions[k] # NoData}

calculate_position_exposure(position) == position.quantity * position.current_price

calculate_total_exposure(positions) ==
    SumOver([k \in PositionKeys |->
                IF positions[k] # NoData
                THEN calculate_position_exposure(positions[k]) ELSE 0],
            HeldKeys(positions))

\* The sum check_position_limit forms over the positions in the symbol.
CurrentPosition(positions, symbol) ==
    SumOver([k \in PositionKeys |->
                IF positions[k] # NoData THEN positions[k].quantity ELSE 0],
            {k \in HeldKeys(positions) : k[1] = symbol})

check_position_limit(positions, limits, symbol, size) ==
    IF symbol \notin DOMAIN limits
    THEN size <= DEFAULT_POSITION_LIMIT
    ELSE CurrentPosition(positions, symbol) + size <= limits[symbol]

\* The sum check_exchange_exposure forms over the positions on the venue.
CurrentExchangeExposure(positions, exchange) ==
    SumOver([k \in PositionKeys |->
                IF positions[k] # NoData
                THEN calculate_position_exposure(positions[k]) ELSE 0],
            {k \in HeldKeys(positions) : k[2] = exchange})

check_exchange_exposure(positions, limits, exchange, exposure) ==
    IF exchange \notin DOMAIN limits THEN TRUE
    ELSE CurrentExchangeExposure(positions, exchange) + exposure <= limits[exchange]

\* check_opportunity_risk, as the verdict it reaches: "accept" where it
\* returns true, and otherwise the check at which it returns false.
RiskVerdict(opp, positions, limits, max_exposure) ==
    IF opp.execution_risk > MAX_EXECUTION_RISK THEN "execution_risk"
    ELSE IF opp.funding_risk > MAX_FUNDING_RATE_EXPOSURE THEN "funding_risk"
    ELSE IF opp.liquidity_score < MIN_LIQUIDITY_SCORE THEN "liquidity"
    ELSE IF \E i \in 1..Len(opp.legs) :
                ~check_position_limit(positions, limits, opp.legs[i].symbol,
                                      opp.legs[i].quantity)
         THEN "position_limit"
    ELSE IF calculate_total_exposure(positions) + opp.required_capital > max_exposure
         THEN "portfolio_exposure"
    ELSE "accept"

check_opportunity_risk(opp, positions, limits, max_exposure) ==
    RiskVerdict(opp, positions, limits, max_exposure) = "accept"

----------------------------------------------------------------------------
(* The engine as main() wires it: configure the detector, register the     *)
(* consumer callback, start market data, start the detector, and stop it   *)
(* on shutdown.  The host reports positions to the risk manager.           *)

(* Order books: an adapter thread delivers book updates to                 *)
(* handle_orderbook_update, a host asks get_order_book for a view, and a   *)
(* reader thread takes mid prices from a LockFreeOrderBook or an OrderBook *)
(* that another thread is updating.                                        *)

PriceLevel(price, quantity) == [price |-> price, quantity |-> quantity]

\* The updates the adapter delivers: bid and ask levels, best first
BookUpdates ==
    { [bids |-> <<PriceLevel(9990, 1)>>, asks |-> <<PriceLevel(10000, 2)>>],
      [bids |-> <<PriceLevel(10010, 3), PriceLevel(10005, 1)>>,
       asks |-> <<PriceLevel(10020, 1)>>] }

BookKeys == {<<"BTC-USDT", a, t>> : a \in Adapters, t \in InstrumentTypes}
\* The key whose book the host and the reader thread look at
ViewedBookKey == <<"BTC-USDT", "OKX", "SPOT">>

\* LockFreeOrderBook(): both counts are 0
EmptyBook == [bids |-> <<>>, asks |-> <<>>]

InitBook ==
    /\ order_books_ = [k \in BookKeys |-> NoData]
    /\ order_book = EmptyBook
    /\ book_writer = [pc |-> "idle"]
    /\ completed_update = [k \in BookKeys |-> NoData]
    /\ bookView = NoData
    /\ book_reader = [pc |-> "idle"]
    /\ midRead = NoData

\* ExchangeBase(): disconnected, no thread; MarketDataManager(): not running
InitAdapters ==
    /\ state_ = [a \in Adapters |-> "DISCONNECTED"]
    /\ io_thread = [a \in Adapters |-> FALSE]
    /\ heartbeat_running_ = [a \in Adapters |-> FALSE]
    /\ heartbeat_thread = [a \in Adapters |-> "none"]
    /\ since_heartbeat = [a \in Adapters |-> 0]
    /\ reconnect_count_ = [a \in Adapters |-> 0]
    /\ reconnect_thread = [a \in Adapters |-> "none"]
    /\ mdm_running_ = FALSE
    /\ mdm_pc = "constructed"
    /\ lastWrite = NoData

\* The threads that call start() and stop() of one component
Callers == {1, 2}

\* A component as constructed: running_{false}, no thread
InitLifecycle ==
    /\ component_running_ = FALSE
    /\ thread_handle = 0
    /\ live_threads = {}
    /\ threads_started = 0
    /\ callers = [c \in Callers |-> [pc |-> "idle"]]
    /\ lastReturn = NoData

\* The subscriptions main() asks of every adapter: "<inst_id>:<channel>"
Subscriptions == {"BTC-USDT:books5", "BTC-USDT:tickers"}

\* A connection of an adapter is told apart by the number of reconnect()
\* calls that preceded it; NeverSent: no subscribe message left the adapter
NeverSent == -1

\* The threads of one adapter: the io thread runs the client and its
\* handlers, the heartbeat thread the timer, the others are the detached
\* threads that on_close and on_fail start to reconnect (the model lets two
\* of them run at a time)
DetachedThreads == {"reconnect1", "reconnect2"}
OkxThreads == {"io", "heartbeat"} \cup DetachedThreads

\* The thread pool: its workers, and the threads of the host that call
\* submit, wait_all and stop
Workers == {"worker1", "worker2"}
PoolCallers == {"submitter", "waiter", "stopper"}
PoolThreads == Workers \cup PoolCallers

\* The tasks the host submits, in this order
Tasks == 1..MaxTasks

\* ThreadPool(num_threads): the workers run, nothing is queued
NewThreadPool(workers) ==
    [workers_ |-> workers, tasks_ |-> <<>>, active_tasks_ |-> 0, stop_ |-> FALSE,
     queue_mutex_ |-> "free"]

\* GlobalMemoryPools: the three fixed pools.  A block is <<owner, index>>:
\* the blocks of a pool's storage_ carry the pool's name, the blocks of
\* ::operator new carry "heap".
FixedPools == {"small", "medium", "large"}

\* FixedMemoryPool(): every block of storage_ is pushed on the free list,
\* the last one ends up in front
NewFixedMemoryPool(p) ==
    [free_list_ |-> [i \in 1..NumBlocks |-> <<p, NumBlocks + 1 - i>>], allocated_count_ |-> 0]

\* The threads of the host that call the risk manager
RiskThreads == {"detector", "main"}

\* The consumers a host may register with the detector
BusConsumers == {1, 2}

\* OKXWebSocket(): no pending subscription, nothing sent
InitFeed ==
    /\ pending_subscriptions_ = {}
    /\ sent_subscriptions = [s \in Subscriptions |-> NeverSent]
    /\ depth_cache_ = NoData
    /\ depthCall = NoData
    /\ vwapCall = NoData
    /\ notifier = [pc |-> "idle"]
    /\ consumer_state = [c \in BusConsumers |-> "idle"]
    /\ callback_errors = 0
    /\ positions_mutex_ = "free"
    /\ risk_callers = [t \in RiskThreads |-> [pc |-> "idle"]]
    /\ riskReturn = NoData
    /\ okx = [state_ |-> "DISCONNECTED", heartbeat_running_ |-> FALSE,
              reconnect_count_ |-> 0, since_heartbeat |-> 0,
              connection_mutex_ |-> "free", process |-> "running"]
    /\ okx_threads = [t \in OkxThreads |-> "none"]
    /\ okx_log = [losses |-> 0, reconnects |-> 0]
    /\ pool = NewThreadPool(Workers)
    /\ pool_threads = [t \in PoolThreads |-> [pc |-> IF t \in pool.workers_ THEN "loop" ELSE "idle", task |-> 0]]
    /\ memory_pools = [p \in FixedPools |-> NewFixedMemoryPool(p)]
    /\ held = {}
    /\ heap_blocks = 0
    /\ pool_log = [accepted |-> {}, rejected |-> {}, submitted_stopped |-> {},
                   executed |-> [task \in Tasks |-> 0]]

\* The detector, the risk manager and the books, as the constructors
\* leave them
InitCore ==
    /\ updates = 0
    /\ min_profit_threshold_ = MIN_PROFIT_THRESHOLD_DEFAULT
    /\ max_position_size_ = MAX_POSITION_SIZE_USD
    /\ current_opportunities_ = <<>>
    /\ callbacks_ = <<>>
    /\ running_ = FALSE
    /\ main_pc = "configure"
    /\ pc = "idle"
    /\ cycles = 0
    /\ total_opportunities_ = 0
    /\ expired_opportunities_ = 0
    /\ now = 0
    /\ pass_start = 0
    /\ emitted = <<>>
    /\ delivered = <<>>
    /\ positions_ = [k \in PositionKeys |-> NoData]
    /\ position_limits_ = ConstructorPositionLimits
    /\ exchange_limits_ = ConstructorExchangeLimits
    /\ max_portfolio_exposure_ = MAX_PORTFOLIO_EXPOSURE
    /\ riskCall = NoData
    /\ bestCall = NoData
    /\ InitBook
    /\ InitFeed

\* Everything but the market data index, as the constructors leave it
InitComponents ==
    /\ InitCore
    /\ InitAdapters
    /\ InitLifecycle

Init ==
    /\ market_data_ = [k \in Keys |-> NoData]
    /\ InitComponents

\* set_min_profit_threshold(arbitrage_config.min_profit_threshold): the
\* configured value, in thousandths of a basis point
ThresholdInputs == {MIN_PROFIT_THRESHOLD_DEFAULT, 2000}

set_min_profit_threshold(t) ==
    /\ main_pc = "configure"
    /\ min_profit_threshold_' = t
    /\ main_pc' = "register"
    /\ UNCHANGED <<sideVars, market_data_, updates, now, pass_start, max_position_size_,
                   current_opportunities_, callbacks_, running_, pc, cycles,
                   total_opportunities_, expired_opportunities_, emitted, delivered,
                   riskVars>>

\* The consumers that register: main() registers one callback.
Consumers == {1}

register_opportunity_callback(c) ==
    /\ main_pc = "register"
    /\ callbacks_' = Append(callbacks_, c)
    /\ main_pc' = "start_feed"
    /\ UNCHANGED <<sideVars, market_data_, updates, now, pass_start, min_profit_threshold_,
                   max_position_size_, current_opportunities_, running_, pc, cycles,
                   total_opportunities_, expired_opportunities_, emitted, delivered,
                   riskVars>>

\* market_data->start() and the subscriptions
StartMarketData ==
    /\ main_pc = "start_feed"
    /\ main_pc' = "feeding"
    /\ UNCHANGED <<sideVars, market_data_, updates, now, pass_start, min_profit_threshold_,
                   max_position_size_, current_opportunities_, callbacks_, running_,
                   pc, cycles, total_opportunities_, expired_opportunities_, emitted,
                   delivered, riskVars>>

\* ArbitrageDetector::start
Start ==
    /\ main_pc = "feeding"
    /\ ~running_
    /\ running_' = TRUE
    /\ pc' = "loop"
    /\ main_pc' = "detecting"
    /\ UNCHANGED <<sideVars, market_data_, updates, now, pass_start, min_profit_threshold_,
                   max_position_size_, current_opportunities_, callbacks_, cycles,
                   total_opportunities_, expired_opportunities_, emitted, delivered,
                   riskVars>>

\* ArbitrageDetector::stop: clears the flag, then joins the thread
Stop ==
    /\ main_pc = "detecting"
    /\ running_
    /\ running_' = FALSE
    /\ main_pc' = "stopping"
    /\ UNCHANGED <<sideVars, market_data_, updates, now, pass_start, min_profit_threshold_,
                   max_position_size_, current_opportunities_, callbacks_, pc, cycles,
                   total_opportunities_, expired_opportunities_, emitted, delivered,
                   riskVars>>

\* The callback main() registers: it receives the opportunity and then asks
\* the risk manager about it.
ConsumerReceives(consumer, opp) ==
    [consumer |-> consumer, opp |-> opp,
     verdict |-> RiskVerdict(opp, positions_, position_limits_,
                             max_portfolio_exposure_)]

\* notify_callbacks(opp): every registered callback, in registration order
notify_callbacks(opp) ==
    [i \in 1..Len(callbacks_) |-> ConsumerReceives(callbacks_[i], opp)]

RECURSIVE NotifyEach(_)
NotifyEach(opps) ==
    IF opps = <<>> THEN <<>>
    ELSE notify_callbacks(Head(opps)) \o NotifyEach(Tail(opps))

EmittedAt(opps, thr) == [i \in 1..Len(opps) |-> [opp |-> opps[i], min_profit |-> thr, cycle |-> cycles]]

\* A delivery that hands every consumer the newest opportunities first
EmitNewestFirst(opps) ==
    /\ current_opportunities_' = current_opportunities_ \o opps
    /\ delivered' = NotifyEach(opps) \o delivered
    /\ emitted' = emitted \o EmittedAt(opps, min_profit_threshold_)
    /\ total_opportunities_' = total_opportunities_ + Len(opps)

\* What each detect_* function does with the opportunities it has built:
\* push_back on the live list, notify_callbacks, count.
Emit(opps) ==
    /\ current_opportunities_' = current_opportunities_ \o opps
    /\ delivered' = delivered \o NotifyEach(opps)
    /\ emitted' = emitted \o EmittedAt(opps, min_profit_threshold_)
    /\ total_opportunities_' = total_opportunities_ + Len(opps)

\* A pass that runs detect_funding_arbitrage before
\* detect_synthetic_arbitrage
NextStepFundingFirst(step) ==
    CASE step = "spot" -> "funding"
      [] step = "funding" -> "synthetic"
      [] step = "synthetic" -> "cleanup"
      [] step = "cleanup" -> "sleep"

\* One pass of detection_loop: detect_spot_arbitrage,
\* detect_synthetic_arbitrage, detect_funding_arbitrage,
\* cleanup_expired_opportunities, then the sleep
NextStep(step) ==
    CASE step = "spot" -> "synthetic"
      [] step = "synthetic" -> "funding"
      [] step = "funding" -> "cleanup"
      [] step = "cleanup" -> "sleep"

\* while (running_): the thread begins another pass
LoopEnter ==
    /\ pc = "loop"
    /\ running_
    /\ WithinBudget(updates, cycles)
    /\ pc' = "spot"
    /\ cycles' = cycles + 1
    /\ pass_start' = now
    /\ UNCHANGED <<sideVars, market_data_, updates, now, min_profit_threshold_,
                   max_position_size_, current_opportunities_, callbacks_, running_,
                   main_pc, total_opportunities_, expired_opportunities_,
                   emitted, delivered, riskVars>>

\* the thread leaves the loop, and stop()'s join returns
LoopExit ==
    /\ pc = "loop"
    /\ ~running_
    /\ pc' = "idle"
    /\ main_pc' = "stopped"
    /\ UNCHANGED <<sideVars, market_data_, updates, now, pass_start, min_profit_threshold_,
                   max_position_size_, current_opportunities_, callbacks_, running_,
                   cycles, total_opportunities_, expired_opportunities_, emitted,
                   delivered, riskVars>>

DetectSpot ==
    /\ pc = "spot"
    /\ Emit(detect_spot_arbitrage(market_data_, min_profit_threshold_, now,
                                  max_position_size_))
    /\ pc' = NextStep("spot")
    /\ UNCHANGED <<sideVars, market_data_, updates, now, pass_start, min_profit_threshold_,
                   max_position_size_, callbacks_, running_, main_pc, cycles,
                   expired_opportunities_, riskVars>>

DetectSynthetic ==
    /\ pc = "synthetic"
    /\ Emit(detect_synthetic_arbitrage(market_data_, min_profit_threshold_, now))
    /\ pc' = NextStep("synthetic")
    /\ UNCHANGED <<sideVars, market_data_, updates, now, pass_start, min_profit_threshold_,
                   max_position_size_, callbacks_, running_, main_pc, cycles,
                   expired_opportunities_, riskVars>>

DetectFunding ==
    /\ pc = "funding"
    /\ \E junk \in Indeterminate, unset_risk \in Indeterminate,
          unset_liq \in Indeterminate :
          Emit(detect_funding_arbitrage(market_data_, min_profit_threshold_, now,
                                        junk, unset_risk, unset_liq))
    /\ pc' = NextStep("funding")
    /\ UNCHANGED <<sideVars, market_data_, updates, now, pass_start, min_profit_threshold_,
                   max_position_size_, callbacks_, running_, main_pc, cycles,
                   expired_opportunities_, riskVars>>

\* duration_cast<milliseconds>: the whole milliseconds in a duration
ToMs(ticks) == ticks \div TicksPerMs
Ms(ms) == ms * TicksPerMs

\* A cleanup that measures every opportunity against the detector's own ttl
ExpiredByDetectorTtl(opp, t) == ToMs(t - opp.timestamp) > OPPORTUNITY_TTL_MS

\* age_ms > opp.ttl_ms
Expired(opp, t) == ToMs(t - opp.timestamp) > opp.ttl_ms

\* Time a pass has taken when cleanup reads the clock: none that counts, or
\* well over a ttl when the thread was kept off the processor.
ElapsedTicks == {0, Ms(OPPORTUNITY_TTL_MS + 100)}

\* cleanup_expired_opportunities reads the clock and removes what is older
\* than its ttl at that reading.
cleanup_expired_opportunities(d) ==
    /\ pc = "cleanup"
    /\ now' = now + d
    /\ current_opportunities_' =
           SelectSeq(current_opportunities_, LAMBDA o : ~Expired(o, now'))
    /\ expired_opportunities_' = expired_opportunities_
           + Cardinality({i \in 1..Len(current_opportunities_) :
                             Expired(current_opportunities_[i], now')})
    /\ pc' = NextStep("cleanup")
    /\ UNCHANGED <<sideVars, market_data_, updates, pass_start, min_profit_threshold_,
                   max_position_size_, callbacks_, running_, main_pc, cycles,
                   total_opportunities_, emitted, delivered, riskVars>>

\* The end of one pass of detection_loop: the thread sleeps what is left of
\* the 100 ms period, if anything is left.
Sleep ==
    /\ pc = "sleep"
    /\ now' = IF now - pass_start < Ms(DETECTION_PERIOD_MS)
              THEN pass_start + Ms(DETECTION_PERIOD_MS) ELSE now
    /\ pc' = "loop"
    /\ UNCHANGED <<sideVars, market_data_, updates, pass_start, min_profit_threshold_,
                   max_position_size_, current_opportunities_, callbacks_, running_,
                   main_pc, cycles, total_opportunities_, expired_opportunities_, emitted,
                   delivered, riskVars>>

\* Positions the host reports (add_position)
PositionInputs ==
    { PositionInfo("BTC-USDT", "OKX", "BUY", 10, 10000, "SPOT") }

add_position(position) ==
    /\ positions_' = [positions_ EXCEPT ![<<position.symbol, position.exchange>>] = position]
    /\ UNCHANGED <<sideVars, market_data_, updates, now, detVars, position_limits_,
                   exchange_limits_, max_portfolio_exposure_, riskCall>>

Next ==
    \/ \E t \in ThresholdInputs : set_min_profit_threshold(t)
    \/ \E c \in Consumers : register_opportunity_callback(c)
    \/ StartMarketData
    \/ \E s \in FeedSymbols, e \in FeedExchanges, t \in InstrumentTypes :
          \E d \in RecordsOf(t) : HandleMarketData(<<s, e, t>>, d)
    \/ Start
    \/ Stop
    \/ LoopEnter
    \/ LoopExit
    \/ DetectSpot
    \/ DetectSynthetic
    \/ DetectFunding
    \/ \E d \in ElapsedTicks : cleanup_expired_opportunities(d)
    \/ Sleep
    \/ \E p \in PositionInputs : add_position(p)

Spec == Init /\ [][Next]_vars

----------------------------------------------------------------------------
(* The detector over a single connected venue, its clock read to the       *)
(* fraction of a millisecond.                                               *)

\* As ElapsedTicks, and a ttl and a fraction of a millisecond
FineElapsedTicks == ElapsedTicks \cup {Ms(OPPORTUNITY_TTL_MS) + 1}

SingleVenue == {"OKX"}

NextCleanup ==
    \/ set_min_profit_threshold(MIN_PROFIT_THRESHOLD_DEFAULT)
    \/ \E c \in Consumers : register_opportunity_callback(c)
    \/ StartMarketData
    \/ \E s \in FeedSymbols, e \in SingleVenue, t \in InstrumentTypes :
          \E d \in RecordsOf(t) : HandleMarketData(<<s, e, t>>, d)
    \/ Start
    \/ LoopEnter
    \/ DetectSpot
    \/ DetectSynthetic
    \/ DetectFunding
    \/ \E d \in FineElapsedTicks : cleanup_expired_opportunities(d)
    \/ Sleep

SpecCleanup == Init /\ [][NextCleanup]_vars

----------------------------------------------------------------------------
(* The risk manager on its own: a host configures limits, reports          *)
(* positions and asks for the verdict on an opportunity.                   *)

MapSet(m, key, value) ==
    [k \in DOMAIN m \cup {key} |-> IF k = key THEN value ELSE m[k]]

PositionLimitInputs == {<<"BTC-USDT", 20>>}
ExchangeLimitInputs == {<<"OKX", 500000>>}
PortfolioLimitInputs == {200000}

set_position_limit(symbol, limit) ==
    /\ position_limits_' = MapSet(position_limits_, symbol, limit)
    /\ UNCHANGED <<sideVars, market_data_, updates, now, detVars, positions_,
                   exchange_limits_, max_portfolio_exposure_, riskCall>>

set_exchange_limit(exchange, limit) ==
    /\ exchange_limits_' = MapSet(exchange_limits_, exchange, limit)
    /\ UNCHANGED <<sideVars, market_data_, updates, now, detVars, positions_,
                   position_limits_, max_portfolio_exposure_, riskCall>>

set_max_portfolio_exposure(max_exposure) ==
    /\ max_portfolio_exposure_' = max_exposure
    /\ UNCHANGED <<sideVars, market_data_, updates, now, detVars, positions_,
                   position_limits_, exchange_limits_, riskCall>>

\* Positions the host holds when it asks
RiskPositionInputs ==
    { PositionInfo("BTC-USDT", "OKX", "BUY", 10, 10000, "SPOT"),
      PositionInfo("SOL-USDT", "OKX", "BUY", 30, 10000, "SPOT"),
      PositionInfo("XRP-USDT", "OKX", "BUY", 50000, 1, "SPOT") }

\* An opportunity as a caller of check_opportunity_risk may present it
Opportunity(kind, legs, required_capital, execution_risk, funding_risk, liquidity_score) ==
    [id |-> <<kind, 0>>,
     timestamp |-> 0,
     legs |-> legs,
     expected_profit |-> Rat(required_capital, 1000),
     profit_percentage |-> Rat(1, 10),
     required_capital |-> required_capital,
     execution_risk |-> execution_risk,
     funding_risk |-> funding_risk,
     liquidity_score |-> liquidity_score,
     ttl_ms |-> OPPORTUNITY_TTL_MS,
     is_executable |-> TRUE]

\* Two legs in one symbol: buy at OKX, sell at BINANCE
TwoLegs(symbol, type, quantity) ==
    << Leg(symbol, "OKX", "BUY", 10000, quantity, type, FALSE),
       Leg(symbol, "BINANCE", "SELL", 10010, quantity, type, FALSE) >>

RiskOpportunities ==
    { Opportunity("SPOT", TwoLegs("BTC-USDT", "SPOT", 1), 10000, 30, 0, 90),
      Opportunity("SPOT", TwoLegs("SOL-USDT", "SPOT", 1), 10000, 30, 0, 90),
      Opportunity("SPOT", TwoLegs("XRP-USDT", "SPOT", 1), 10000, 30, 0, 90),
      \* a spot opportunity that carries a funding_risk figure
      Opportunity("SPOT", TwoLegs("ETH-USDT", "SPOT", 1), 10000, 30, 200, 90),
      Opportunity("FUNDING", TwoLegs("ETH-USDT", "PERPETUAL", 1), 10000, 30, 200, 90),
      \* several checks fail at once
      Opportunity("SPOT", TwoLegs("BTC-USDT", "SPOT", 1), 10000, 90, 200, 0),
      Opportunity("SPOT", TwoLegs("BTC-USDT", "SPOT", 20), 200000, 30, 0, 50),
      Opportunity("SPOT", TwoLegs("ETH-USDT", "SPOT", 1), 2000000, 30, 0, 90),
      \* sells one symbol and buys another
      Opportunity("SPOT",
                  << Leg("BTC-USDT", "BINANCE", "SELL", 10000, 1, "SPOT", FALSE),
                     Leg("ETH-USDT", "BINANCE", "BUY", 1000, 10, "SPOT", FALSE) >>,
                  10000, 30, 0, 90) }

\* A call of check_opportunity_risk: its argument, the state it read and
\* the verdict it reached.
CheckOpportunityRisk(opp) ==
    /\ riskCall' = [opp |-> opp,
                    positions |-> positions_,
                    position_limits |-> position_limits_,
                    exchange_limits |-> exchange_limits_,
                    max_exposure |-> max_portfolio_exposure_,
                    verdict |-> RiskVerdict(opp, positions_, position_limits_,
                                            max_portfolio_exposure_)]
    /\ UNCHANGED <<sideVars, market_data_, updates, now, detVars, positions_,
                   position_limits_, exchange_limits_, max_portfolio_exposure_>>

NextRisk ==
    \/ \E l \in PositionLimitInputs : set_position_limit(l[1], l[2])
    \/ \E l \in ExchangeLimitInputs : set_exchange_limit(l[1], l[2])
    \/ \E x \in PortfolioLimitInputs : set_max_portfolio_exposure(x)
    \/ \E p \in RiskPositionInputs : add_position(p)
    \/ \E o \in RiskOpportunities : CheckOpportunityRisk(o)

SpecRisk == Init /\ [][NextRisk]_vars

----------------------------------------------------------------------------
(* get_best_prices on its own: the index holds whatever the adapters'      *)
(* parsers wrote for one perpetual symbol, and a caller asks for the best  *)
(* prices with a BestPrices it declared without initialising.              *)

\* parse_ticker_message: bid, ask and their sizes come from the message
TickerRecords ==
    { MarketData(10000, 10004, 1, 1, 0),
      MarketData(10000, 10004, 3, 2, 0),
      MarketData(10002, 10006, 2, 2, 0) }

\* parse_funding_rate_message: a fresh MarketData of which only the funding
\* rate is assigned; the quotes hold whatever the memory held
FundingRateRecords ==
    { MarketData(b, a, 0, 0, 5) : b \in Indeterminate, a \in Indeterminate }

BestSymbol == "BTC-USDT"
BestKeys == {<<BestSymbol, e, "PERPETUAL">> : e \in ExchangeSet}
BestIndexes ==
    { [k \in Keys |-> IF k \in BestKeys THEN f[k] ELSE NoData] :
        f \in [BestKeys -> {NoData} \cup TickerRecords \cup FundingRateRecords] }

InitBest ==
    /\ market_data_ \in BestIndexes
    /\ InitComponents

\* A venue whose adapter has used up its reconnect attempts: on_fail at the
\* cap leaves ConnectionState::ERROR and starts no further attempt
Failed(a) ==
    /\ a \in Adapters
    /\ reconnect_count_[a] >= MAX_RECONNECT_ATTEMPTS
    /\ state_[a] = "ERROR"

\* The fields get_best_prices never assigned keep what the caller's
\* BestPrices held before the call.
CallerBestPrices(p, bid_exchange, bid_size) ==
    IF p.best_bid_exchange = "UNINIT"
    THEN [p EXCEPT !.best_bid_exchange = bid_exchange, !.best_bid_size = bid_size]
    ELSE p

GetBestPrices(symbol, type) ==
    /\ \E bid_exchange \in ExchangeSet, bid_size \in Indeterminate :
          bestCall' = [symbol |-> symbol, type |-> type,
                       failed |-> {a \in ExchangeSet : Failed(a)},
                       prices |-> CallerBestPrices(
                                      get_best_prices(market_data_, symbol, type),
                                      bid_exchange, bid_size)]
    /\ UNCHANGED <<engineVars, bookVars, adapterVars, lifeVars, feedVars>>

NextBest ==
    \E type \in InstrumentTypes : GetBestPrices(BestSymbol, type)

SpecBest == InitBest /\ [][NextBest]_vars

----------------------------------------------------------------------------
(* The order book operations *)

\* LockFreeOrderBook::update_bids / update_asks: the levels, then the count
update_bids(book, levels) == [book EXCEPT !.bids = levels]
update_asks(book, levels) == [book EXCEPT !.asks = levels]

\* handle_orderbook_update up to update_bids: the accessor on the key's
\* entry is taken, the book is created if the key had none
HandleOrderbookUpdateBids(key, update) ==
    /\ book_writer.pc = "idle"
    /\ order_books_' =
          [order_books_ EXCEPT ![key] =
              update_bids(IF @ = NoData THEN EmptyBook ELSE @, update.bids)]
    /\ book_writer' = [pc |-> "asks", key |-> key, update |-> update]
    /\ UNCHANGED <<order_book, completed_update, bookView, book_reader, midRead>>
    /\ UNCHANGED <<engineVars, bestVars, adapterVars, lifeVars, feedVars>>

\* handle_orderbook_update from update_asks to its return
HandleOrderbookUpdateAsks ==
    /\ book_writer.pc = "asks"
    /\ order_books_' =
          [order_books_ EXCEPT ![book_writer.key] =
              update_asks(@, book_writer.update.asks)]
    /\ completed_update' =
          [completed_update EXCEPT ![book_writer.key] = book_writer.update]
    /\ book_writer' = [pc |-> "idle"]
    /\ UNCHANGED <<order_book, bookView, book_reader, midRead>>
    /\ UNCHANGED <<engineVars, bestVars, adapterVars, lifeVars, feedVars>>

\* get_order_book: the const_accessor waits for a writer's accessor on the
\* same entry; a found key yields a newly made OrderBook, no key yields null
get_order_book(books, key) == IF books[key] # NoData THEN EmptyBook ELSE NoData

GetOrderBook(key) ==
    /\ ~(book_writer.pc = "asks" /\ book_writer.key = key)
    /\ bookView' = [key |-> key, book |-> get_order_book(order_books_, key),
                    completed |-> completed_update[key]]
    /\ UNCHANGED <<order_books_, order_book, book_writer, completed_update,
                   book_reader, midRead>>
    /\ UNCHANGED <<engineVars, bestVars, adapterVars, lifeVars, feedVars>>

\* bids_[bid.price] = bid for every level in turn: the last level given for
\* a price is the one the map holds
RECURSIVE MapInsert(_, _)
MapInsert(side, levels) ==
    IF levels = <<>> THEN side
    ELSE MapInsert({l \in side : l.price # Head(levels).price} \cup {Head(levels)},
                   Tail(levels))

\* The levels of a std::map in its iteration order: bids_ from the highest
\* price (std::greater), asks_ from the lowest
RECURSIVE MapOrder(_, _)
MapOrder(side, highest_first) ==
    IF side = {} THEN <<>>
    ELSE LET first == CHOOSE l \in side : \A m \in side :
                          IF highest_first THEN m.price <= l.price ELSE m.price >= l.price
         IN  <<first>> \o MapOrder(side \ {first}, highest_first)

\* OrderBook::update: both sides cleared and refilled under the unique lock
OrderBookUpdate(update) ==
    /\ order_book' = [bids |-> MapOrder(MapInsert({}, update.bids), TRUE),
                      asks |-> MapOrder(MapInsert({}, update.asks), FALSE)]
    /\ UNCHANGED <<order_books_, book_writer, completed_update, bookView,
                   book_reader, midRead>>
    /\ UNCHANGED <<engineVars, bestVars, adapterVars, lifeVars, feedVars>>

\* get_best_bid / get_best_ask of either class: false on an empty side,
\* else the first level
get_best_level(levels) ==
    IF Len(levels) = 0 THEN [ok |-> FALSE] ELSE [ok |-> TRUE, level |-> levels[1]]

ReaderTargets == {"LockFreeOrderBook", "OrderBook"}
TargetBook(target) ==
    IF target = "OrderBook" THEN order_book
    ELSE order_books_[ViewedBookKey]

\* get_mid_price, first call: get_best_bid (under its own shared lock in
\* OrderBook, by atomic loads in LockFreeOrderBook)
MidPriceReadBid(target) ==
    /\ book_reader.pc = "idle"
    /\ TargetBook(target) # NoData
    /\ book_reader' = [pc |-> "ask", target |-> target,
                       bid |-> get_best_level(TargetBook(target).bids)]
    /\ UNCHANGED <<order_books_, order_book, book_writer, completed_update,
                   bookView, midRead>>
    /\ UNCHANGED <<engineVars, bestVars, adapterVars, lifeVars, feedVars>>

\* get_mid_price, second call and result: get_best_ask is skipped when
\* get_best_bid returned false
MidPriceReadAsk ==
    /\ book_reader.pc = "ask"
    /\ LET ask == get_best_level(TargetBook(book_reader.target).asks)
       IN  midRead' =
             IF book_reader.bid.ok /\ ask.ok
             THEN [target |-> book_reader.target, both |-> TRUE,
                   bid |-> book_reader.bid.level, ask |-> ask.level,
                   mid |-> (book_reader.bid.level.price + ask.level.price) \div 2]
             ELSE [target |-> book_reader.target, both |-> FALSE, mid |-> 0]
    /\ book_reader' = [pc |-> "idle"]
    /\ UNCHANGED <<order_books_, order_book, book_writer, completed_update,
                   bookView>>
    /\ UNCHANGED <<engineVars, bestVars, adapterVars, lifeVars, feedVars>>

NextBook ==
    \/ \E update \in BookUpdates :
          HandleOrderbookUpdateBids(ViewedBookKey, update)
    \/ HandleOrderbookUpdateAsks
    \/ GetOrderBook(ViewedBookKey)
    \/ \E update \in BookUpdates : OrderBookUpdate(update)
    \/ \E target \in ReaderTargets : MidPriceReadBid(target)
    \/ MidPriceReadAsk

SpecBook == Init /\ [][NextBook]_vars

----------------------------------------------------------------------------
(* The venue adapters' message handlers, wired to the manager by           *)
(* add_exchange: every adapter is connected and subscribed to the spot and *)
(* the perpetual streams of one symbol.                                    *)

StreamSymbols == {"BTC-USDT"}

\* OKXWebSocket::get_inst_id: the instrument id subscribed (and echoed by
\* the venue in every message of the stream) is the symbol itself
get_inst_id(symbol, type) == symbol

\* What a local InstrumentType that is never assigned may hold
IndeterminateTypes == InstrumentTypes

InitConnected ==
    /\ state_ = [a \in Adapters |-> "CONNECTED"]
    /\ io_thread = [a \in Adapters |-> TRUE]
    /\ heartbeat_running_ = [a \in Adapters |-> TRUE]
    /\ heartbeat_thread = [a \in Adapters |-> "sleeping"]
    /\ since_heartbeat = [a \in Adapters |-> 0]
    /\ reconnect_count_ = [a \in Adapters |-> 0]
    /\ reconnect_thread = [a \in Adapters |-> "none"]
    /\ mdm_running_ = TRUE
    /\ mdm_pc = "started"
    /\ lastWrite = NoData

InitStream ==
    /\ market_data_ = [k \in Keys |-> NoData]
    /\ InitCore
    /\ InitConnected
    /\ InitLifecycle

\* The record of a write: the adapter and stream it was made for, the key
\* it went to, and whether the manager's stop() had returned
Written(adapter, symbol, type, channel, key) ==
    [adapter |-> adapter, symbol |-> symbol, type |-> type, channel |-> channel,
     key |-> key, after_stop |-> mdm_pc = "stopped"]

\* parse_ticker_message -> update_market_data -> handle_market_data: md.type
\* is never assigned; the key is built from md.symbol, md.exchange, md.type
ParseTickerMessage(adapter, symbol, type, data, md_type) ==
    /\ state_[adapter] = "CONNECTED" /\ io_thread[adapter]
    /\ WithinBudget(updates, cycles)
    /\ LET key == <<get_inst_id(symbol, type), adapter, md_type>>
       IN  /\ market_data_' = [market_data_ EXCEPT ![key] = data]
           /\ lastWrite' = Written(adapter, symbol, type, "tickers", key)
    /\ updates' = updates + 1
    /\ UNCHANGED <<state_, io_thread, heartbeat_running_, heartbeat_thread,
                   since_heartbeat, reconnect_count_, reconnect_thread,
                   mdm_running_, mdm_pc>>
    /\ UNCHANGED <<now, detVars, riskVars, bestVars, bookVars, lifeVars, feedVars>>

\* parse_funding_rate_message: md.type = PERPETUAL, the quotes unassigned
ParseFundingRateMessage(adapter, symbol, data) ==
    /\ state_[adapter] = "CONNECTED" /\ io_thread[adapter]
    /\ WithinBudget(updates, cycles)
    /\ LET key == <<get_inst_id(symbol, "PERPETUAL"), adapter, "PERPETUAL">>
       IN  /\ market_data_' = [market_data_ EXCEPT ![key] = data]
           /\ lastWrite' = Written(adapter, symbol, "PERPETUAL", "funding-rate", key)
    /\ updates' = updates + 1
    /\ UNCHANGED <<state_, io_thread, heartbeat_running_, heartbeat_thread,
                   since_heartbeat, reconnect_count_, reconnect_thread,
                   mdm_running_, mdm_pc>>
    /\ UNCHANGED <<now, detVars, riskVars, bestVars, bookVars, lifeVars, feedVars>>

\* parse_orderbook_message -> update_orderbook -> the callback add_exchange
\* installed: handle_orderbook_update(symbol, ex, InstrumentType::SPOT, ...)
ParseOrderbookMessage(adapter, symbol, type, update) ==
    /\ state_[adapter] = "CONNECTED" /\ io_thread[adapter]
    /\ book_writer.pc = "idle"
    /\ LET key == <<get_inst_id(symbol, type), adapter, "SPOT">>
       IN  /\ order_books_' =
                 [order_books_ EXCEPT ![key] =
                     update_asks(update_bids(IF @ = NoData THEN EmptyBook ELSE @,
                                             update.bids), update.asks)]
           /\ completed_update' = [completed_update EXCEPT ![key] = update]
           /\ lastWrite' = Written(adapter, symbol, type, "books", key)
    /\ UNCHANGED <<state_, io_thread, heartbeat_running_, heartbeat_thread,
                   since_heartbeat, reconnect_count_, reconnect_thread,
                   mdm_running_, mdm_pc>>
    /\ UNCHANGED <<order_book, book_writer, bookView, book_reader, midRead>>
    /\ UNCHANGED <<engineVars, bestVars, lifeVars, feedVars>>

\* The one ticker and the one book update each stream delivers here
StreamTicker == MarketData(10000, 10004, 1, 1, 0)
StreamFundingRate == MarketData(0, 0, 0, 0, 5)
StreamBookUpdate == [bids |-> <<PriceLevel(9990, 1)>>, asks |-> <<PriceLevel(10000, 2)>>]

NextStream ==
    \/ \E a \in Adapters, symbol \in StreamSymbols, type \in InstrumentTypes,
          md_type \in IndeterminateTypes :
          ParseTickerMessage(a, symbol, type, StreamTicker, md_type)
    \/ \E a \in Adapters, symbol \in StreamSymbols :
          ParseFundingRateMessage(a, symbol, StreamFundingRate)
    \/ \E a \in Adapters, symbol \in StreamSymbols, type \in InstrumentTypes :
          ParseOrderbookMessage(a, symbol, type, StreamBookUpdate)

SpecStream == InitStream /\ [][NextStream]_vars

\* parse_trades_message: a fresh MarketData of which the symbol, the
\* exchange, last_price, volume_24h and the timestamp are assigned; the
\* quotes, their sizes and the funding rate hold whatever the memory held
TradeRecords ==
    { MarketData(b, a, s, s, f) : b \in Indeterminate, a \in Indeterminate,
                                  s \in Indeterminate, f \in Indeterminate }

\* parse_trades_message -> update_market_data -> handle_market_data: md.type
\* is never assigned; the record stored under the key is replaced whole
ParseTradesMessage(adapter, symbol, type, data, md_type) ==
    /\ state_[adapter] = "CONNECTED" /\ io_thread[adapter]
    /\ WithinBudget(updates, cycles)
    /\ LET key == <<get_inst_id(symbol, type), adapter, md_type>>
       IN  /\ market_data_' = [market_data_ EXCEPT ![key] = data]
           /\ lastWrite' = [adapter |-> adapter, symbol |-> symbol, type |-> type,
                            channel |-> "trades", key |-> key,
                            after_stop |-> mdm_pc = "stopped",
                            replaced |-> market_data_[key]]
    /\ updates' = updates + 1
    /\ UNCHANGED <<state_, io_thread, heartbeat_running_, heartbeat_thread,
                   since_heartbeat, reconnect_count_, reconnect_thread,
                   mdm_running_, mdm_pc>>
    /\ UNCHANGED <<now, detVars, riskVars, bestVars, bookVars, lifeVars, feedVars>>

\* The tickers, trades and funding rates of one symbol on the OKX adapter
NextTrade ==
    \/ \E data \in TickerRecords, md_type \in IndeterminateTypes :
          ParseTickerMessage("OKX", BestSymbol, "PERPETUAL", data, md_type)
    \/ \E data \in TradeRecords, md_type \in IndeterminateTypes :
          ParseTradesMessage("OKX", BestSymbol, "PERPETUAL", data, md_type)
    \/ \E data \in FundingRateRecords :
          ParseFundingRateMessage("OKX", BestSymbol, data)

SpecTrade == InitStream /\ [][NextTrade]_vars

----------------------------------------------------------------------------
(* The adapters' connections under the manager's start() and stop(): the   *)
(* io thread of an adapter runs its handlers, its heartbeat thread wakes   *)
(* once per heartbeat interval, and on_close starts a detached thread that *)
(* reconnects.                                                             *)

Alive == mdm_pc # "terminated"

\* OKXWebSocket::connect: nothing when connected or connecting, else the
\* connection is created and io_thread_ runs the client
connect(a) ==
    IF state_[a] \in {"CONNECTED", "CONNECTING"}
    THEN UNCHANGED <<state_, io_thread>>
    ELSE /\ state_' = [state_ EXCEPT ![a] = "CONNECTING"]
         /\ io_thread' = [io_thread EXCEPT ![a] = TRUE]

\* OKXWebSocket::disconnect: nothing when disconnected, else the connection
\* is closed, the client stopped and io_thread_ joined
disconnect(a) ==
    IF state_[a] = "DISCONNECTED"
    THEN UNCHANGED <<state_, io_thread>>
    ELSE /\ state_' = [state_ EXCEPT ![a] = "DISCONNECTED"]
         /\ io_thread' = [io_thread EXCEPT ![a] = FALSE]

\* MarketDataManager::start: connect() on every adapter
MdmStart ==
    /\ mdm_pc = "constructed"
    /\ ~mdm_running_
    /\ mdm_running_' = TRUE
    /\ state_' = [a \in Adapters |-> "CONNECTING"]
    /\ io_thread' = [a \in Adapters |-> TRUE]
    /\ mdm_pc' = "started"
    /\ UNCHANGED <<heartbeat_running_, heartbeat_thread, since_heartbeat,
                   reconnect_count_, reconnect_thread, lastWrite>>
    /\ UNCHANGED <<engineVars, bestVars, bookVars, lifeVars, feedVars>>

\* on_open: connected, last_heartbeat_ = now, start_heartbeat_timer.  A
\* heartbeat thread that still exists is a joinable std::thread whose owner
\* is overwritten: std::terminate ends the process.
OnOpen(a) ==
    /\ Alive
    /\ io_thread[a] /\ state_[a] = "CONNECTING"
    /\ state_' = [state_ EXCEPT ![a] = "CONNECTED"]
    /\ since_heartbeat' = [since_heartbeat EXCEPT ![a] = 0]
    /\ heartbeat_running_' = [heartbeat_running_ EXCEPT ![a] = TRUE]
    /\ IF heartbeat_thread[a] = "none"
       THEN /\ heartbeat_thread' = [heartbeat_thread EXCEPT ![a] = "sleeping"]
            /\ UNCHANGED mdm_pc
       ELSE /\ mdm_pc' = "terminated"
            /\ UNCHANGED heartbeat_thread
    /\ UNCHANGED <<io_thread, reconnect_count_, reconnect_thread, mdm_running_,
                   lastWrite>>
    /\ UNCHANGED <<engineVars, bestVars, bookVars, lifeVars, feedVars>>

\* on_close: disconnected, stop_heartbeat_timer (the heartbeat thread is
\* joined), and while reconnect_count_ < MAX_RECONNECT_ATTEMPTS a detached
\* thread is started to reconnect
on_close(a) ==
    /\ heartbeat_running_' = [heartbeat_running_ EXCEPT ![a] = FALSE]
    /\ heartbeat_thread' = [heartbeat_thread EXCEPT ![a] = "none"]
    /\ IF reconnect_count_[a] < MAX_RECONNECT_ATTEMPTS
       THEN /\ state_' = [state_ EXCEPT ![a] = "RECONNECTING"]
            /\ reconnect_thread' = [reconnect_thread EXCEPT ![a] = "started"]
       ELSE /\ state_' = [state_ EXCEPT ![a] = "DISCONNECTED"]
            /\ UNCHANGED reconnect_thread

\* The venue closes the connection
OnClose(a) ==
    /\ Alive
    /\ io_thread[a] /\ state_[a] = "CONNECTED"
    /\ heartbeat_thread[a] # "reconnecting"
    /\ reconnect_thread[a] = "none"
    /\ on_close(a)
    /\ UNCHANGED <<io_thread, since_heartbeat, reconnect_count_, mdm_running_,
                   mdm_pc, lastWrite>>
    /\ UNCHANGED <<engineVars, bestVars, bookVars, lifeVars, feedVars>>

\* on_fail: the connection attempt failed; state ERROR, and while
\* reconnect_count_ < MAX_RECONNECT_ATTEMPTS a detached thread is started to
\* reconnect
OnFail(a) ==
    /\ Alive
    /\ io_thread[a] /\ state_[a] = "CONNECTING"
    /\ reconnect_thread[a] = "none"
    /\ IF reconnect_count_[a] < MAX_RECONNECT_ATTEMPTS
       THEN /\ state_' = [state_ EXCEPT ![a] = "RECONNECTING"]
            /\ reconnect_thread' = [reconnect_thread EXCEPT ![a] = "started"]
       ELSE /\ state_' = [state_ EXCEPT ![a] = "ERROR"]
            /\ UNCHANGED reconnect_thread
    /\ UNCHANGED <<io_thread, heartbeat_running_, heartbeat_thread, since_heartbeat,
                   reconnect_count_, mdm_running_, mdm_pc, lastWrite>>
    /\ UNCHANGED <<engineVars, bestVars, bookVars, lifeVars, feedVars>>

\* The detached thread: reconnect() up to its sleep (disconnect())
ReconnectDisconnect(a) ==
    /\ Alive
    /\ reconnect_thread[a] = "started"
    /\ disconnect(a)
    /\ reconnect_thread' = [reconnect_thread EXCEPT ![a] = "sleeping"]
    /\ UNCHANGED <<heartbeat_running_, heartbeat_thread, since_heartbeat,
                   reconnect_count_, mdm_running_, mdm_pc, lastWrite>>
    /\ UNCHANGED <<engineVars, bestVars, bookVars, lifeVars, feedVars>>

\* The detached thread: reconnect() after its sleep (reconnect_count_++,
\* connect())
ReconnectConnect(a) ==
    /\ Alive
    /\ reconnect_thread[a] = "sleeping"
    /\ reconnect_count_[a] < MaxReconnects
    /\ reconnect_count_' = [reconnect_count_ EXCEPT ![a] = @ + 1]
    /\ connect(a)
    /\ reconnect_thread' = [reconnect_thread EXCEPT ![a] = "none"]
    /\ UNCHANGED <<heartbeat_running_, heartbeat_thread, since_heartbeat,
                   mdm_running_, mdm_pc, lastWrite>>
    /\ UNCHANGED <<engineVars, bestVars, bookVars, lifeVars, feedVars>>

\* The heartbeat thread wakes and runs check_heartbeat: reconnect() when
\* more than two intervals passed since last_heartbeat_, else send_ping,
\* which sets last_heartbeat_ only when connected
HeartbeatCheck(a) ==
    /\ Alive
    /\ heartbeat_thread[a] = "sleeping" /\ heartbeat_running_[a]
    /\ LET elapsed == since_heartbeat[a] + 1
       IN  IF elapsed > HEARTBEAT_TIMEOUT_INTERVALS
           THEN /\ disconnect(a)
                /\ heartbeat_thread' = [heartbeat_thread EXCEPT ![a] = "reconnecting"]
                /\ UNCHANGED since_heartbeat
           ELSE /\ since_heartbeat' =
                      [since_heartbeat EXCEPT
                          ![a] = IF state_[a] = "CONNECTED" THEN 0 ELSE elapsed]
                /\ UNCHANGED <<state_, io_thread, heartbeat_thread>>
    /\ UNCHANGED <<heartbeat_running_, reconnect_count_, reconnect_thread,
                   mdm_running_, mdm_pc, lastWrite>>
    /\ UNCHANGED <<engineVars, bestVars, bookVars, lifeVars, feedVars>>

\* The heartbeat thread inside reconnect(), after its sleep
HeartbeatReconnect(a) ==
    /\ Alive
    /\ heartbeat_thread[a] = "reconnecting"
    /\ reconnect_count_[a] < MaxReconnects
    /\ reconnect_count_' = [reconnect_count_ EXCEPT ![a] = @ + 1]
    /\ connect(a)
    /\ heartbeat_thread' = [heartbeat_thread EXCEPT ![a] = "sleeping"]
    /\ UNCHANGED <<heartbeat_running_, since_heartbeat, reconnect_thread,
                   mdm_running_, mdm_pc, lastWrite>>
    /\ UNCHANGED <<engineVars, bestVars, bookVars, lifeVars, feedVars>>

\* MarketDataManager::stop: running_ = false and disconnect() on every
\* adapter.  The close handler of a connected adapter may run on its io
\* thread before disconnect() stops the client (closed: those adapters).
MdmStop(closed) ==
    /\ mdm_pc = "started"
    /\ mdm_running_
    /\ closed \subseteq {a \in Adapters : state_[a] = "CONNECTED"}
    /\ \A a \in closed : heartbeat_thread[a] # "reconnecting" /\ reconnect_thread[a] = "none"
    /\ mdm_running_' = FALSE
    /\ io_thread' = [a \in Adapters |-> FALSE]
    /\ state_' = [a \in Adapters |->
                    IF a \in closed /\ reconnect_count_[a] < MAX_RECONNECT_ATTEMPTS
                    THEN "RECONNECTING" ELSE "DISCONNECTED"]
    /\ heartbeat_running_' = [a \in Adapters |->
                                IF a \in closed THEN FALSE ELSE heartbeat_running_[a]]
    /\ heartbeat_thread' = [a \in Adapters |->
                               IF a \in closed THEN "none" ELSE heartbeat_thread[a]]
    /\ reconnect_thread' = [a \in Adapters |->
                               IF a \in closed /\ reconnect_count_[a] < MAX_RECONNECT_ATTEMPTS
                               THEN "started" ELSE reconnect_thread[a]]
    /\ mdm_pc' = "stopped"
    /\ UNCHANGED <<since_heartbeat, reconnect_count_, lastWrite>>
    /\ UNCHANGED <<engineVars, bestVars, bookVars, lifeVars, feedVars>>

NextAdapter ==
    \/ MdmStart
    \/ \E a \in Adapters : OnOpen(a)
    \/ \E a \in Adapters : OnClose(a)
    \/ \E a \in Adapters : OnFail(a)
    \/ \E a \in Adapters : ReconnectDisconnect(a)
    \/ \E a \in Adapters : ReconnectConnect(a)
    \/ \E a \in Adapters : HeartbeatCheck(a)
    \/ \E a \in Adapters : HeartbeatReconnect(a)
    \/ \E closed \in SUBSET Adapters : MdmStop(closed)
    \/ \E a \in Adapters, symbol \in StreamSymbols :
          Alive /\ ParseTickerMessage(a, symbol, "SPOT", StreamTicker, "SPOT")

SpecAdapter == Init /\ [][NextAdapter]_vars

\* get_best_prices while adapters fail for good: every adapter has made
\* MAX_RECONNECT_ATTEMPTS attempts and waits for the last one to open; the
\* index holds what was written while the adapters were connected.
InitExhausted ==
    /\ market_data_ \in BestIndexes
    /\ InitCore
    /\ InitLifecycle
    /\ state_ = [a \in Adapters |-> "CONNECTING"]
    /\ io_thread = [a \in Adapters |-> TRUE]
    /\ heartbeat_running_ = [a \in Adapters |-> FALSE]
    /\ heartbeat_thread = [a \in Adapters |-> "none"]
    /\ since_heartbeat = [a \in Adapters |-> 0]
    /\ reconnect_count_ = [a \in Adapters |-> MAX_RECONNECT_ATTEMPTS]
    /\ reconnect_thread = [a \in Adapters |-> "none"]
    /\ mdm_running_ = TRUE
    /\ mdm_pc = "started"
    /\ lastWrite = NoData

NextExhausted ==
    \/ \E a \in Adapters : OnFail(a)
    \/ \E type \in InstrumentTypes : GetBestPrices(BestSymbol, type)

SpecExhausted == InitExhausted /\ [][NextExhausted]_vars

\* ExchangeBase::send_message of a subscribe message: dropped with a
\* warning unless the state is CONNECTED, else sent on the connection
send_message(a, subscription) ==
    IF state_[a] # "CONNECTED"
    THEN UNCHANGED sent_subscriptions
    ELSE sent_subscriptions' =
             [sent_subscriptions EXCEPT ![subscription] = reconnect_count_[a]]

\* OKXWebSocket::subscribe_orderbook / subscribe_ticker: the subscription
\* is inserted into pending_subscriptions_ and its message handed to
\* send_message
Subscribe(a, subscription) ==
    /\ Alive
    /\ mdm_pc = "started"
    /\ pending_subscriptions_' = pending_subscriptions_ \cup {subscription}
    /\ send_message(a, subscription)
    /\ UNCHANGED <<depthVars, vwapVars, busVars, moreVars>>
    /\ UNCHANGED <<engineVars, bestVars, bookVars, adapterVars, lifeVars>>

\* The OKX adapter from MarketDataManager::start() on: main() subscribes
\* while the connection opens, closes and is made again by reconnect()
NextSubscribe ==
    \/ MdmStart
    \/ \E subscription \in Subscriptions : Subscribe("OKX", subscription)
    \/ OnOpen("OKX")
    \/ OnClose("OKX")
    \/ ReconnectDisconnect("OKX")
    \/ ReconnectConnect("OKX")

SpecSubscribe == Init /\ [][NextSubscribe]_vars

\* The depth stream of Binance.  A depth update carries the first and the
\* final update id of the event (U, u) and the changed levels of both sides
\* (b, a); quantity 0 asks for the price to be removed.
DepthUpdate(U, u, b, a) == [U |-> U, u |-> u, b |-> b, a |-> a]

DepthUpdates ==
    { DepthUpdate(1, 1, <<PriceLevel(10000, 2)>>, <<PriceLevel(10010, 1)>>),
      DepthUpdate(2, 2, <<PriceLevel(10002, 1)>>, <<>>),
      DepthUpdate(3, 3, <<PriceLevel(10000, 0)>>, <<PriceLevel(10008, 3)>>),
      DepthUpdate(4, 5, <<PriceLevel(10004, 1), PriceLevel(10002, 0)>>,
                  <<PriceLevel(10010, 0)>>) }

\* depth_cache_[symbol] as operator[] creates it: value-initialised
NewDepthCache == [bids |-> {}, asks |-> {}, last_update_id |-> 0, initialized |-> FALSE]

\* The entry parse_depth_update and request_depth_snapshot work on
CacheEntry == IF depth_cache_ = NoData THEN NewDepthCache ELSE depth_cache_

\* request_depth_snapshot: no request is made, the cache is marked
\* initialized
request_depth_snapshot(cache) == [cache EXCEPT !.initialized = TRUE]

\* cache.bids[price] = qty when qty > 0, cache.bids.erase(price) otherwise,
\* for every level of the update in turn
RECURSIVE ApplyLevels(_, _)
ApplyLevels(side, levels) ==
    IF levels = <<>> THEN side
    ELSE LET level == Head(levels)
             others == {l \in side : l.price # level.price}
         IN  ApplyLevels(IF level.quantity > 0 THEN others \cup {level} ELSE others,
                         Tail(levels))

\* The first MAX_ORDER_BOOK_DEPTH levels of a side of the cache in the
\* order of its std::map: bids from the highest price, asks from the lowest
RECURSIVE CacheLevels(_, _, _)
CacheLevels(side, highest_first, count) ==
    IF side = {} \/ count = 0 THEN <<>>
    ELSE LET first == CHOOSE l \in side : \A m \in side :
                          IF highest_first THEN m.price <= l.price ELSE m.price >= l.price
         IN  <<first>> \o CacheLevels(side \ {first}, highest_first, count - 1)

\* BinanceWebSocket::subscribe_orderbook: the stream is recorded and
\* request_depth_snapshot called
SubscribeDepth ==
    /\ depth_cache_' = request_depth_snapshot(CacheEntry)
    /\ UNCHANGED <<depthCall, subVars, vwapVars, busVars, moreVars>>
    /\ UNCHANGED <<engineVars, bestVars, bookVars, adapterVars, lifeVars>>

\* BinanceWebSocket::parse_depth_update -> update_orderbook ->
\* handle_orderbook_update.  On a cache that is not initialized,
\* request_depth_snapshot and return; otherwise the levels are applied and
\* the book of the key replaced by the cache's levels.  The update ids are
\* not read.
ParseDepthUpdate(update) ==
    /\ state_["BINANCE"] = "CONNECTED" /\ io_thread["BINANCE"]
    /\ book_writer.pc = "idle"
    /\ LET before == CacheEntry
           key == <<"BTC-USDT", "BINANCE", "SPOT">>
           after == IF ~before.initialized
                    THEN request_depth_snapshot(before)
                    ELSE [before EXCEPT !.bids = ApplyLevels(@, update.b),
                                        !.asks = ApplyLevels(@, update.a)]
           levels == [bids |-> CacheLevels(after.bids, TRUE, MAX_ORDER_BOOK_DEPTH),
                      asks |-> CacheLevels(after.asks, FALSE, MAX_ORDER_BOOK_DEPTH)]
           previous == IF depthCall = NoData THEN 0
                       ELSE IF depthCall.applied THEN depthCall.update.u
                       ELSE depthCall.previous
       IN  /\ depth_cache_' = after
           /\ depthCall' = [update |-> update, before |-> depth_cache_,
                            previous |-> previous, applied |-> before.initialized,
                            snapshot_requested |-> ~before.initialized,
                            after |-> after]
           /\ IF before.initialized
              THEN /\ order_books_' =
                         [order_books_ EXCEPT ![key] =
                             update_asks(update_bids(IF @ = NoData THEN EmptyBook ELSE @,
                                                     levels.bids), levels.asks)]
                   /\ completed_update' = [completed_update EXCEPT ![key] = levels]
                   /\ lastWrite' = Written("BINANCE", "BTC-USDT", "SPOT", "depth", key)
              ELSE UNCHANGED <<order_books_, completed_update, lastWrite>>
    /\ UNCHANGED <<state_, io_thread, heartbeat_running_, heartbeat_thread,
                   since_heartbeat, reconnect_count_, reconnect_thread,
                   mdm_running_, mdm_pc>>
    /\ UNCHANGED <<order_book, book_writer, bookView, book_reader, midRead>>
    /\ UNCHANGED <<engineVars, bestVars, lifeVars, subVars, vwapVars, busVars, moreVars>>

NextDepth ==
    \/ SubscribeDepth
    \/ \E update \in DepthUpdates : ParseDepthUpdate(update)

SpecDepth == InitStream /\ [][NextDepth]_vars

\* What callers hand to OrderBook::update and what the OKX books channel
\* delivers: the feed's updates, one repeating a held price with quantity 0,
\* one whose best bid is not below its best ask, one in no order, and one
\* with five ask levels
OrderBookUpdates ==
    BookUpdates \cup
    { [bids |-> <<PriceLevel(10010, 3), PriceLevel(10005, 0)>>,
       asks |-> <<PriceLevel(10020, 1)>>],
      [bids |-> <<PriceLevel(10020, 1)>>, asks |-> <<PriceLevel(10000, 2)>>],
      [bids |-> <<PriceLevel(10005, 1), PriceLevel(10010, 3)>>,
       asks |-> <<PriceLevel(10030, 2), PriceLevel(10020, 1)>>],
      [bids |-> <<PriceLevel(9990, 1)>>,
       asks |-> <<PriceLevel(10000, 1), PriceLevel(10002, 1), PriceLevel(10004, 1),
                  PriceLevel(10006, 1), PriceLevel(10008, 2)>>] }

\* OrderBook::is_valid: both sides hold a level and the best bid is below
\* the best ask
is_valid(book) ==
    IF book.bids = <<>> \/ book.asks = <<>> THEN FALSE
    ELSE book.bids[1].price < book.asks[1].price

\* calculate_vwap_simd, the loop over batches of four levels: a batch is
\* added whole while it does not exceed the target, else the loop is left
RECURSIVE SimdBatches(_, _, _, _, _)
SimdBatches(levels, target_quantity, i, total_value, total_quantity) ==
    IF i + 3 <= Len(levels) /\ total_quantity < target_quantity
    THEN LET batch_quantity == levels[i].quantity + levels[i+1].quantity +
                               levels[i+2].quantity + levels[i+3].quantity
             batch_value == levels[i].price * levels[i].quantity +
                            levels[i+1].price * levels[i+1].quantity +
                            levels[i+2].price * levels[i+2].quantity +
                            levels[i+3].price * levels[i+3].quantity
         IN  IF total_quantity + batch_quantity <= target_quantity
             THEN SimdBatches(levels, target_quantity, i + 4,
                              total_value + batch_value, total_quantity + batch_quantity)
             ELSE [i |-> i, total_value |-> total_value, total_quantity |-> total_quantity]
    ELSE [i |-> i, total_value |-> total_value, total_quantity |-> total_quantity]

\* calculate_vwap_simd, the loop over the remaining levels
RECURSIVE RemainingLevels(_, _, _, _, _)
RemainingLevels(levels, target_quantity, i, total_value, total_quantity) ==
    IF i <= Len(levels) /\ total_quantity < target_quantity
    THEN LET qty == Min(target_quantity - total_quantity, levels[i].quantity)
         IN  RemainingLevels(levels, target_quantity, i + 1,
                             total_value + levels[i].price * qty, total_quantity + qty)
    ELSE [total_value |-> total_value, total_quantity |-> total_quantity]

calculate_vwap_simd(levels, target_quantity) ==
    IF levels = <<>> \/ target_quantity <= 0 THEN Rat(0, 1)
    ELSE LET batches == SimdBatches(levels, target_quantity, 1, 0, 0)
             totals == RemainingLevels(levels, target_quantity, batches.i,
                                       batches.total_value, batches.total_quantity)
         IN  IF totals.total_quantity > 0
             THEN Rat(totals.total_value, totals.total_quantity)
             ELSE Rat(0, 1)

\* OrderBook::calculate_vwap: the asks for a buy, the bids for a sell, in
\* the order of the map
calculate_vwap(book, side, target_quantity) ==
    calculate_vwap_simd(IF side = "BUY" THEN book.asks ELSE book.bids, target_quantity)

Sides == {"BUY", "SELL"}
VwapTargets == {0, 1, 3, 5, 9}

\* A caller's calculate_vwap: what it gets back is one Price
CalculateVwap(side, target_quantity) ==
    /\ vwapCall' = [side |-> side, target_quantity |-> target_quantity,
                    levels |-> IF side = "BUY" THEN order_book.asks ELSE order_book.bids,
                    result |-> [avg_price |-> calculate_vwap(order_book, side,
                                                              target_quantity)]]
    /\ UNCHANGED <<subVars, depthVars, busVars, moreVars>>
    /\ UNCHANGED <<engineVars, bestVars, bookVars, adapterVars, lifeVars>>

NextOrderBook ==
    \/ \E update \in OrderBookUpdates : OrderBookUpdate(update)
    \/ \E update \in OrderBookUpdates :
          ParseOrderbookMessage("OKX", "BTC-USDT", "SPOT", update)
    \/ \E side \in Sides, target_quantity \in VwapTargets :
          CalculateVwap(side, target_quantity)

SpecOrderBook == InitStream /\ [][NextOrderBook]_vars

\* notify_callbacks step by step.  The detection thread takes
\* callbacks_mutex_ and calls the callbacks one after the other; a callback
\* runs on the detection thread and may take any time, or never return.
BusOpportunities == {"first", "second", "third"}

\* What the detector's other variables are left as by the steps below
BusUnchanged ==
    /\ UNCHANGED <<market_data_, updates, now, riskVars, min_profit_threshold_,
                   max_position_size_, current_opportunities_, running_, main_pc, pc,
                   cycles, pass_start, expired_opportunities_, emitted, delivered>>
    /\ UNCHANGED <<bestVars, bookVars, adapterVars, lifeVars, subVars, depthVars,
                   vwapVars, moreVars>>

\* register_opportunity_callback: push_back under callbacks_mutex_
BusRegister(c) ==
    /\ notifier.pc = "idle"
    /\ \A i \in 1..Len(callbacks_) : callbacks_[i] # c
    /\ callbacks_' = Append(callbacks_, c)
    /\ UNCHANGED <<total_opportunities_, notifier, consumer_state, callback_errors>>
    /\ BusUnchanged

\* The call of callbacks_[index], or the return of notify_callbacks and
\* total_opportunities_++ when there is none left
CallNext(opp, index) ==
    IF index <= Len(callbacks_)
    THEN /\ notifier' = [pc |-> "calling", opp |-> opp, index |-> index]
         /\ consumer_state' = [consumer_state EXCEPT ![callbacks_[index]] = "handling"]
         /\ UNCHANGED total_opportunities_
    ELSE /\ notifier' = [pc |-> "idle"]
         /\ total_opportunities_' = total_opportunities_ + 1
         /\ UNCHANGED consumer_state

\* notify_callbacks(opportunity): the mutex is taken and the first callback
\* called
NotifyBegin(opp) ==
    /\ notifier.pc = "idle"
    /\ total_opportunities_ < MaxEvents
    /\ CallNext(opp, 1)
    /\ UNCHANGED <<callbacks_, callback_errors>>
    /\ BusUnchanged

\* The callback being called is left, and the loop over callbacks_ goes on
NextCallback ==
    IF notifier.index < Len(callbacks_)
       THEN /\ notifier' = [notifier EXCEPT !.index = @ + 1]
            /\ consumer_state' =
                  [consumer_state EXCEPT ![callbacks_[notifier.index]] = "idle",
                                         ![callbacks_[notifier.index + 1]] = "handling"]
            /\ UNCHANGED total_opportunities_
       ELSE /\ notifier' = [pc |-> "idle"]
            /\ consumer_state' =
                  [consumer_state EXCEPT ![callbacks_[notifier.index]] = "idle"]
            /\ total_opportunities_' = total_opportunities_ + 1

\* The callback of the consumer being called returns
CallbackReturn ==
    /\ notifier.pc = "calling"
    /\ consumer_state[callbacks_[notifier.index]] = "handling"
    /\ NextCallback
    /\ UNCHANGED <<callbacks_, callback_errors>>
    /\ BusUnchanged

\* What a callback may throw: an object of a class derived from
\* std::exception, or an object of any other type
Thrown == {"std::exception", "other"}

\* The callback of the consumer being called throws.  catch (const
\* std::exception&) logs and the loop goes on; an object of another type is
\* caught nowhere, neither in notify_callbacks nor in detection_loop, and
\* leaves the thread function: std::terminate ends the process.
CallbackThrows(thrown) ==
    /\ notifier.pc = "calling"
    /\ consumer_state[callbacks_[notifier.index]] = "handling"
    /\ IF thrown = "std::exception"
       THEN /\ NextCallback
            /\ callback_errors' = callback_errors + 1
       ELSE /\ notifier' = [pc |-> "terminated", index |-> notifier.index]
            /\ consumer_state' =
                  [consumer_state EXCEPT ![callbacks_[notifier.index]] = "idle"]
            /\ UNCHANGED <<total_opportunities_, callback_errors>>
    /\ UNCHANGED callbacks_
    /\ BusUnchanged

\* The callback of the consumer being called blocks for good
CallbackBlocks ==
    /\ notifier.pc = "calling"
    /\ consumer_state[callbacks_[notifier.index]] = "handling"
    /\ consumer_state' = [consumer_state EXCEPT ![callbacks_[notifier.index]] = "blocked"]
    /\ UNCHANGED <<callbacks_, total_opportunities_, notifier, callback_errors>>
    /\ BusUnchanged

NextBus ==
    \/ \E c \in BusConsumers : BusRegister(c)
    \/ \E opp \in BusOpportunities : NotifyBegin(opp)
    \/ CallbackReturn
    \/ \E thrown \in Thrown : CallbackThrows(thrown)
    \/ CallbackBlocks

SpecBus == Init /\ [][NextBus]_vars

\* The risk manager's calls that take positions_mutex_, step by step, made
\* by threads of the host.  positions_mutex_ is a std::mutex: locking it on
\* the thread that owns it is undefined; the lock call then never returns,
\* or fails with std::system_error (resource_deadlock_would_occur).
RelockOutcomes == {"deadlock", "system_error"}

\* What the steps below leave alone
LockUnchanged ==
    /\ UNCHANGED <<engineVars, bestVars, bookVars, adapterVars, lifeVars>>
    /\ UNCHANGED <<subVars, depthVars, vwapVars, busVars, joinVars, poolVars, memVars>>

\* std::lock_guard<std::mutex> lock(positions_mutex_) on a mutex the calling
\* thread owns, inside calculate_total_exposure: the call's end, by outcome
LockOwnedMutex(t, outcome) ==
    IF outcome = "deadlock"
    THEN /\ risk_callers' = [risk_callers EXCEPT ![t] = [@ EXCEPT !.pc = "self_deadlock"]]
         /\ UNCHANGED <<positions_mutex_, riskReturn>>
    ELSE /\ risk_callers' = [risk_callers EXCEPT ![t] = [pc |-> "idle"]]
         /\ positions_mutex_' = "free"
         /\ riskReturn' = [thread |-> t, op |-> risk_callers[t].pc,
                           outcome |-> "system_error"]

\* close_position: the lock_guard at its entry
ClosePositionLock(t, symbol, exchange) ==
    /\ risk_callers[t].pc = "idle"
    /\ positions_mutex_ = "free"
    /\ positions_mutex_' = t
    /\ risk_callers' = [risk_callers EXCEPT ![t] =
                           [pc |-> "close_position", key |-> <<symbol, exchange>>]]
    /\ UNCHANGED riskReturn
    /\ LockUnchanged

\* close_position under the lock: nothing for a key that is not held, else
\* record_pnl, whose calculate_total_exposure locks positions_mutex_
ClosePositionFind(t, outcome) ==
    /\ risk_callers[t].pc = "close_position"
    /\ IF positions_[risk_callers[t].key] = NoData
       THEN /\ risk_callers' = [risk_callers EXCEPT ![t] = [pc |-> "idle"]]
            /\ positions_mutex_' = "free"
            /\ riskReturn' = [thread |-> t, op |-> "close_position",
                              outcome |-> "returned"]
       ELSE LockOwnedMutex(t, outcome)
    /\ LockUnchanged

\* calculate_risk_metrics: the cached metrics when the cache is younger
\* than 5 s, else the computation up to its lock_guard
CalculateRiskMetricsLock(t, cache_fresh) ==
    /\ risk_callers[t].pc = "idle"
    /\ IF cache_fresh
       THEN /\ riskReturn' = [thread |-> t, op |-> "calculate_risk_metrics",
                              outcome |-> "returned"]
            /\ UNCHANGED <<positions_mutex_, risk_callers>>
       ELSE /\ positions_mutex_ = "free"
            /\ positions_mutex_' = t
            /\ risk_callers' = [risk_callers EXCEPT ![t] =
                                   [pc |-> "calculate_risk_metrics"]]
            /\ UNCHANGED riskReturn
    /\ LockUnchanged

\* calculate_risk_metrics under the lock: the sum over the perpetual
\* positions, then calculate_total_exposure, which locks positions_mutex_
CalculateRiskMetricsTotal(t, outcome) ==
    /\ risk_callers[t].pc = "calculate_risk_metrics"
    /\ LockOwnedMutex(t, outcome)
    /\ LockUnchanged

\* add_position on a thread of the host: the lock_guard, the write
AddPositionLocked(position) ==
    /\ positions_mutex_ = "free"
    /\ add_position(position)

NextRiskLock ==
    \/ \E p \in RiskPositionInputs : AddPositionLocked(p)
    \/ \E t \in RiskThreads, p \in RiskPositionInputs :
          ClosePositionLock(t, p.symbol, p.exchange)
    \/ \E t \in RiskThreads, outcome \in RelockOutcomes : ClosePositionFind(t, outcome)
    \/ \E t \in RiskThreads, cache_fresh \in BOOLEAN : CalculateRiskMetricsLock(t, cache_fresh)
    \/ \E t \in RiskThreads, outcome \in RelockOutcomes :
          CalculateRiskMetricsTotal(t, outcome)

SpecRiskLock == Init /\ [][NextRiskLock]_vars

\* One adapter thread by thread: the handlers on the io thread, the
\* heartbeat thread, the threads inside reconnect().  A join is a step that
\* waits for the joined thread to end.

\* What the steps below leave alone
JoinUnchanged ==
    /\ UNCHANGED <<engineVars, bestVars, bookVars, adapterVars, lifeVars>>
    /\ UNCHANGED <<subVars, depthVars, vwapVars, busVars, lockVars, poolVars, memVars>>

\* The process runs: std::terminate was not called
OkxAlive == okx.process = "running"

\* The threads inside reconnect()
InReconnect(t) == okx_threads[t] \in {"reconnect", "join_io", "sleep"}

\* The intervals one sleep_for of the heartbeat thread may take: the
\* interval, or longer when the thread is not scheduled in time
SleepIntervals == {1, 3}

\* connect(): nothing when connected or connecting; else CONNECTING and a
\* new io thread in io_thread_.  A thread that io_thread_ still holds
\* unjoined is destroyed joinable: std::terminate.
OkxConnect(fields, threads) ==
    IF fields.state_ \in {"CONNECTED", "CONNECTING"}
    THEN /\ okx' = fields
         /\ okx_threads' = threads
    ELSE IF threads["io"] = "none"
         THEN /\ okx' = [fields EXCEPT !.state_ = "CONNECTING"]
              /\ okx_threads' = [threads EXCEPT !["io"] = "connecting"]
         ELSE /\ okx' = [fields EXCEPT !.state_ = "CONNECTING", !.process = "terminated"]
              /\ okx_threads' = threads

\* MarketDataManager::start on the main thread, called once: connect()
OkxStart ==
    /\ OkxAlive
    /\ okx.state_ = "DISCONNECTED" /\ \A t \in OkxThreads : okx_threads[t] = "none"
    /\ okx_log.reconnects = 0
    /\ OkxConnect(okx, okx_threads)
    /\ UNCHANGED okx_log
    /\ JoinUnchanged

\* on_open on the io thread, under connection_mutex_: CONNECTED,
\* last_heartbeat_ = now, start_heartbeat_timer.  A heartbeat thread that
\* heartbeat_thread_ still holds is destroyed joinable: std::terminate.
IoOnOpen ==
    /\ OkxAlive
    /\ okx_threads["io"] = "connecting" /\ okx.connection_mutex_ = "free"
    /\ IF okx_threads["heartbeat"] = "none"
       THEN /\ okx' = [okx EXCEPT !.state_ = "CONNECTED", !.since_heartbeat = 0,
                                  !.heartbeat_running_ = TRUE]
            /\ okx_threads' = [okx_threads EXCEPT !["io"] = "running",
                                                  !["heartbeat"] = "sleeping"]
       ELSE /\ okx' = [okx EXCEPT !.state_ = "CONNECTED", !.since_heartbeat = 0,
                                  !.heartbeat_running_ = TRUE,
                                  !.process = "terminated"]
            /\ okx_threads' = [okx_threads EXCEPT !["io"] = "running"]
    /\ UNCHANGED okx_log
    /\ JoinUnchanged

\* The detached thread that on_close or on_fail starts
FreeDetached == IF okx_threads["reconnect1"] = "none" THEN "reconnect1" ELSE "reconnect2"

\* on_fail on the io thread, under connection_mutex_: ERROR, and while
\* reconnect_count_ < MAX_RECONNECT_ATTEMPTS a detached thread that calls
\* reconnect(); the client has nothing left to run
IoOnFail ==
    /\ OkxAlive
    /\ okx_threads["io"] = "connecting" /\ okx.connection_mutex_ = "free"
    /\ okx_log.losses < MaxLosses
    /\ IF okx.reconnect_count_ < MAX_RECONNECT_ATTEMPTS
       THEN /\ \E t \in DetachedThreads : okx_threads[t] = "none"
            /\ okx' = [okx EXCEPT !.state_ = "RECONNECTING"]
            /\ okx_threads' = [okx_threads EXCEPT !["io"] = "exited",
                                                  ![FreeDetached] = "reconnect"]
            /\ okx_log' = [losses |-> okx_log.losses + 1,
                           reconnects |-> okx_log.reconnects + 1]
       ELSE /\ okx' = [okx EXCEPT !.state_ = "ERROR"]
            /\ okx_threads' = [okx_threads EXCEPT !["io"] = "exited"]
            /\ okx_log' = [okx_log EXCEPT !.losses = @ + 1]
    /\ JoinUnchanged

\* The venue closes the connection: the client calls the close handler
IoVenueClose ==
    /\ OkxAlive
    /\ okx_threads["io"] = "running"
    /\ okx_log.losses < MaxLosses
    /\ okx_threads' = [okx_threads EXCEPT !["io"] = "on_close"]
    /\ okx_log' = [okx_log EXCEPT !.losses = @ + 1]
    /\ UNCHANGED okx
    /\ JoinUnchanged

\* on_close on the io thread: the lock_guard, DISCONNECTED, and
\* stop_heartbeat_timer up to its join
IoOnCloseLock ==
    /\ OkxAlive
    /\ okx_threads["io"] = "on_close" /\ okx.connection_mutex_ = "free"
    /\ okx' = [okx EXCEPT !.connection_mutex_ = "io", !.state_ = "DISCONNECTED",
                          !.heartbeat_running_ = FALSE]
    /\ okx_threads' = [okx_threads EXCEPT !["io"] = "join_heartbeat"]
    /\ UNCHANGED okx_log
    /\ JoinUnchanged

\* on_close on the io thread: heartbeat_thread_->join() returns once the
\* heartbeat thread has ended; then, while reconnect_count_ <
\* MAX_RECONNECT_ATTEMPTS, RECONNECTING and a detached thread that calls
\* reconnect(); the mutex is released and the client has nothing left to run
IoOnCloseJoin ==
    /\ OkxAlive
    /\ okx_threads["io"] = "join_heartbeat"
    /\ okx_threads["heartbeat"] \in {"none", "exited"}
    /\ IF okx.reconnect_count_ < MAX_RECONNECT_ATTEMPTS
       THEN /\ \E t \in DetachedThreads : okx_threads[t] = "none"
            /\ okx' = [okx EXCEPT !.connection_mutex_ = "free",
                                  !.state_ = "RECONNECTING"]
            /\ okx_threads' = [okx_threads EXCEPT !["io"] = "exited",
                                                  !["heartbeat"] = "none",
                                                  ![FreeDetached] = "reconnect"]
            /\ okx_log' = [okx_log EXCEPT !.reconnects = @ + 1]
       ELSE /\ okx' = [okx EXCEPT !.connection_mutex_ = "free"]
            /\ okx_threads' = [okx_threads EXCEPT !["io"] = "exited",
                                                  !["heartbeat"] = "none"]
            /\ UNCHANGED okx_log
    /\ JoinUnchanged

\* The heartbeat thread after its sleep_for: the loop ends when
\* heartbeat_running_ is false, else check_heartbeat is called
HeartbeatWake(slept) ==
    /\ OkxAlive
    /\ okx_threads["heartbeat"] = "sleeping"
    /\ IF okx.heartbeat_running_
       THEN /\ okx_threads' = [okx_threads EXCEPT !["heartbeat"] = "check"]
            /\ okx' = [okx EXCEPT !.since_heartbeat = Min(@ + slept, HEARTBEAT_TIMEOUT_INTERVALS + 1)]
       ELSE /\ okx_threads' = [okx_threads EXCEPT !["heartbeat"] = "exited"]
            /\ UNCHANGED okx
    /\ UNCHANGED okx_log
    /\ JoinUnchanged

\* check_heartbeat on the heartbeat thread: reconnect() when more than two
\* intervals passed since last_heartbeat_, else send_ping, which sets
\* last_heartbeat_ when connected; then the loop sleeps again
HeartbeatTimeout ==
    /\ OkxAlive
    /\ okx_threads["heartbeat"] = "check"
    /\ IF okx.since_heartbeat > HEARTBEAT_TIMEOUT_INTERVALS
       THEN /\ okx_threads' = [okx_threads EXCEPT !["heartbeat"] = "reconnect"]
            /\ okx_log' = [losses |-> okx_log.losses + (IF okx.state_ = "CONNECTED" THEN 1 ELSE 0),
                           reconnects |-> okx_log.reconnects + 1]
            /\ UNCHANGED okx
       ELSE /\ okx_threads' = [okx_threads EXCEPT !["heartbeat"] = "sleeping"]
            /\ okx' = [okx EXCEPT !.since_heartbeat =
                                     IF okx.state_ = "CONNECTED" THEN 0 ELSE @]
            /\ UNCHANGED okx_log
    /\ JoinUnchanged

\* reconnect() up to the join inside disconnect(): nothing when
\* DISCONNECTED; else DISCONNECTED, the connection is closed and the client
\* stopped.  The close handler of an open connection may be called on the io
\* thread before the client stops (handler_runs).
ReconnectDisconnectStep(t, handler_runs) ==
    /\ OkxAlive
    /\ okx_threads[t] = "reconnect"
    /\ IF okx.state_ = "DISCONNECTED"
       THEN /\ okx_threads' = [okx_threads EXCEPT ![t] = "sleep"]
            /\ UNCHANGED okx
       ELSE /\ okx' = [okx EXCEPT !.state_ = "DISCONNECTED"]
            /\ okx_threads' =
                  [okx_threads EXCEPT
                      ![t] = "join_io",
                      !["io"] = IF @ = "running" /\ handler_runs THEN "on_close"
                                ELSE IF @ \in {"running", "connecting"} THEN "exited"
                                ELSE @]
    /\ UNCHANGED okx_log
    /\ JoinUnchanged

\* disconnect() inside reconnect(): io_thread_->join() returns once the io
\* thread has ended
ReconnectJoinIo(t) ==
    /\ OkxAlive
    /\ okx_threads[t] = "join_io"
    /\ okx_threads["io"] \in {"none", "exited"}
    /\ okx_threads' = [okx_threads EXCEPT ![t] = "sleep", !["io"] = "none"]
    /\ UNCHANGED <<okx, okx_log>>
    /\ JoinUnchanged

\* reconnect() after its sleep: reconnect_count_++, connect(); the
\* heartbeat thread returns to its loop, a detached thread ends
ReconnectAfterSleep(t) ==
    /\ OkxAlive
    /\ okx_threads[t] = "sleep"
    /\ okx.reconnect_count_ < MaxReconnects
    /\ OkxConnect([okx EXCEPT !.reconnect_count_ = @ + 1],
                  [okx_threads EXCEPT ![t] = IF t = "heartbeat" THEN "sleeping" ELSE "none"])
    /\ UNCHANGED okx_log
    /\ JoinUnchanged

NextJoin ==
    \/ OkxStart
    \/ IoOnOpen
    \/ IoOnFail
    \/ IoVenueClose
    \/ IoOnCloseLock
    \/ IoOnCloseJoin
    \/ \E slept \in SleepIntervals : HeartbeatWake(slept)
    \/ HeartbeatTimeout
    \/ \E t \in OkxThreads \ {"io"}, handler_runs \in BOOLEAN :
          ReconnectDisconnectStep(t, handler_runs)
    \/ \E t \in OkxThreads \ {"io"} : ReconnectJoinIo(t)
    \/ \E t \in OkxThreads \ {"io"} : ReconnectAfterSleep(t)

SpecJoin == Init /\ [][NextJoin]_vars

\* The thread pool, step by step.  A step that takes queue_mutex_ and does
\* not wait inside is one step; wait_all holds the mutex from its predicate
\* to its wait.  A waiting thread may wake without a notify.

\* What the steps below leave alone
PoolUnchanged ==
    /\ UNCHANGED <<engineVars, bestVars, bookVars, adapterVars, lifeVars>>
    /\ UNCHANGED <<subVars, depthVars, vwapVars, busVars, lockVars, joinVars, memVars>>

PoolPc(t) == pool_threads[t].pc

\* The task a submit call carries: the tasks are submitted in order
NextTask == Cardinality(pool_log.accepted \cup pool_log.rejected) + 1

\* The workers waiting on condition_
WaitingWorkers == {w \in pool.workers_ : PoolPc(w) = "waiting"}

\* worker_thread: if (stop_ && tasks_.empty()) return
WorkerExitsOnStop(p) == p.stop_
WorkerExits(p) == p.stop_ /\ p.tasks_ = <<>>

\* wait_all: the predicate of finished_condition_.wait
AllFinished(p) == p.tasks_ = <<>> /\ p.active_tasks_ = 0

\* submit under queue_mutex_: std::runtime_error when stop_, else the task
\* is queued
Submit ==
    /\ PoolPc("submitter") = "idle"
    /\ pool.queue_mutex_ = "free"
    /\ NextTask <= MaxTasks
    /\ IF pool.stop_
       THEN /\ pool_log' = [pool_log EXCEPT !.rejected = @ \cup {NextTask},
                                            !.submitted_stopped = @ \cup {NextTask}]
            /\ UNCHANGED <<pool, pool_threads>>
       ELSE /\ pool' = [pool EXCEPT !.tasks_ = Append(@, NextTask)]
            /\ pool_log' = [pool_log EXCEPT !.accepted = @ \cup {NextTask}]
            /\ pool_threads' = [pool_threads EXCEPT !["submitter"].pc = "notify_one"]
    /\ PoolUnchanged

\* submit after the lock: condition_.notify_one() wakes one waiting worker
SubmitNotify ==
    /\ PoolPc("submitter") = "notify_one"
    /\ IF WaitingWorkers = {}
       THEN pool_threads' = [pool_threads EXCEPT !["submitter"].pc = "idle"]
       ELSE \E w \in WaitingWorkers :
               pool_threads' = [pool_threads EXCEPT !["submitter"].pc = "idle",
                                                    ![w].pc = "loop"]
    /\ UNCHANGED <<pool, pool_log>>
    /\ PoolUnchanged

\* worker_thread under queue_mutex_: wait while neither stop_ nor a task;
\* return when stopped and the queue is empty; else take the front task
WorkerTake(w) ==
    /\ w \in pool.workers_ /\ PoolPc(w) = "loop"
    /\ pool.queue_mutex_ = "free"
    /\ IF ~pool.stop_ /\ pool.tasks_ = <<>>
       THEN /\ pool_threads' = [pool_threads EXCEPT ![w].pc = "waiting"]
            /\ UNCHANGED pool
       ELSE IF WorkerExits(pool)
            THEN /\ pool_threads' = [pool_threads EXCEPT ![w].pc = "exited"]
                 /\ UNCHANGED pool
            ELSE /\ pool_threads' = [pool_threads EXCEPT
                                        ![w] = [pc |-> "running", task |-> Head(pool.tasks_)]]
                 /\ pool' = [pool EXCEPT !.tasks_ = Tail(@), !.active_tasks_ = @ + 1]
    /\ UNCHANGED pool_log
    /\ PoolUnchanged

\* worker_thread outside the mutex: task() returns, active_tasks_--
WorkerFinish(w) ==
    /\ PoolPc(w) = "running"
    /\ pool_log' = [pool_log EXCEPT !.executed[pool_threads[w].task] = @ + 1]
    /\ pool' = [pool EXCEPT !.active_tasks_ = @ - 1]
    /\ pool_threads' = [pool_threads EXCEPT ![w] = [pc |-> "notify_all", task |-> 0]]
    /\ PoolUnchanged

\* worker_thread outside the mutex: finished_condition_.notify_all()
WorkerNotifyFinished(w) ==
    /\ w \in Workers /\ PoolPc(w) = "notify_all"
    /\ pool_threads' = [pool_threads EXCEPT
                           ![w].pc = "loop",
                           !["waiter"].pc = IF @ = "waiting" THEN "woken" ELSE @]
    /\ UNCHANGED <<pool, pool_log>>
    /\ PoolUnchanged

\* wait_all: the lock, and the predicate; return when it holds
WaitAllCheck ==
    /\ PoolPc("waiter") \in {"idle", "woken"}
    /\ pool.queue_mutex_ = "free"
    /\ IF AllFinished(pool)
       THEN /\ pool_threads' = [pool_threads EXCEPT !["waiter"].pc = "returned"]
            /\ UNCHANGED pool
       ELSE /\ pool_threads' = [pool_threads EXCEPT !["waiter"].pc = "checked"]
            /\ pool' = [pool EXCEPT !.queue_mutex_ = "waiter"]
    /\ UNCHANGED pool_log
    /\ PoolUnchanged

\* wait_all: finished_condition_.wait releases the mutex and blocks
WaitAllBlock ==
    /\ PoolPc("waiter") = "checked"
    /\ pool_threads' = [pool_threads EXCEPT !["waiter"].pc = "waiting"]
    /\ pool' = [pool EXCEPT !.queue_mutex_ = "free"]
    /\ UNCHANGED pool_log
    /\ PoolUnchanged

\* std::condition_variable::wait may return without a notify
SpuriousWake(t) ==
    /\ t \in pool.workers_ \cup {"waiter"}
    /\ PoolPc(t) = "waiting"
    /\ pool_threads' = [pool_threads EXCEPT ![t].pc = IF t = "waiter" THEN "woken" ELSE "loop"]
    /\ UNCHANGED <<pool, pool_log>>
    /\ PoolUnchanged

\* stop under queue_mutex_: stop_ = true
PoolStopSet ==
    /\ PoolPc("stopper") = "idle"
    /\ pool.queue_mutex_ = "free"
    /\ pool' = [pool EXCEPT !.stop_ = TRUE]
    /\ pool_threads' = [pool_threads EXCEPT !["stopper"].pc = "notify_all"]
    /\ UNCHANGED pool_log
    /\ PoolUnchanged

\* stop: condition_.notify_all() wakes every waiting worker
PoolStopNotify ==
    /\ PoolPc("stopper") = "notify_all"
    /\ pool_threads' = [t \in PoolThreads |->
                           IF t = "stopper" THEN [pool_threads[t] EXCEPT !.pc = "join"]
                           ELSE IF t \in WaitingWorkers
                                THEN [pool_threads[t] EXCEPT !.pc = "loop"]
                                ELSE pool_threads[t]]
    /\ UNCHANGED <<pool, pool_log>>
    /\ PoolUnchanged

\* stop: every worker is joined; the joins return once the workers ended
PoolStopJoin ==
    /\ PoolPc("stopper") = "join"
    /\ \A w \in pool.workers_ : PoolPc(w) = "exited"
    /\ pool_threads' = [pool_threads EXCEPT !["stopper"].pc = "returned"]
    /\ UNCHANGED <<pool, pool_log>>
    /\ PoolUnchanged

NextPool ==
    \/ Submit
    \/ SubmitNotify
    \/ \E w \in Workers : WorkerTake(w)
    \/ \E w \in Workers : WorkerFinish(w)
    \/ \E w \in Workers : WorkerNotifyFinished(w)
    \/ WaitAllCheck
    \/ WaitAllBlock
    \/ \E t \in PoolThreads : SpuriousWake(t)
    \/ PoolStopSet
    \/ PoolStopNotify
    \/ PoolStopJoin

SpecPool == Init /\ [][NextPool]_vars

\* The global memory pools: allocate and deallocate calls whose sizes match

\* What the steps below leave alone
MemUnchanged ==
    /\ UNCHANGED <<engineVars, bestVars, bookVars, adapterVars, lifeVars>>
    /\ UNCHANGED <<subVars, depthVars, vwapVars, busVars, lockVars, joinVars, poolVars>>

\* The blocks of the pools' storage and of the heap
Blocks == (FixedPools \X (1..NumBlocks)) \cup ({"heap"} \X (1..MaxHeapBlocks))

\* The sizes asked for: one for each pool that is used here, one beyond
RequestSizes == {SMALL_BLOCK_SIZE, MEDIUM_BLOCK_SIZE, 2 * LARGE_BLOCK_SIZE}

\* The pool GlobalMemoryPools picks for a size; "heap" beyond the largest
PoolFor(size) ==
    IF size <= SMALL_BLOCK_SIZE THEN "small"
    ELSE IF size <= MEDIUM_BLOCK_SIZE THEN "medium"
    ELSE IF size <= LARGE_BLOCK_SIZE THEN "large"
    ELSE "heap"

\* std::atomic<size_t>: arithmetic modulo the width of size_t
SizeT(n) == n % (2 ^ SizeBits)

\* FixedMemoryPool::allocate: nullptr when the free list is empty, else its
\* front block; the pool after the call
FixedAllocate(fixed) ==
    IF fixed.free_list_ = <<>>
    THEN [block |-> "nullptr", pool |-> fixed]
    ELSE [block |-> Head(fixed.free_list_),
          pool |-> [free_list_ |-> Tail(fixed.free_list_),
                    allocated_count_ |-> SizeT(fixed.allocated_count_ + 1)]]

\* FixedMemoryPool::deallocate: the block is pushed on the free list and the
\* count lowered
FixedDeallocate(fixed, block) ==
    [free_list_ |-> <<block>> \o fixed.free_list_,
     allocated_count_ |-> SizeT(fixed.allocated_count_ - 1)]

\* ::operator new: a block of the heap
OperatorNew ==
    /\ heap_blocks < MaxHeapBlocks
    /\ heap_blocks' = heap_blocks + 1

\* GlobalMemoryPools::allocate: the block of the pool for the size, and
\* ::operator new when that pool returns nullptr or no pool fits
GlobalAllocate(size) ==
    /\ LET p == PoolFor(size)
           result == FixedAllocate(memory_pools[p])
       IN  IF p # "heap" /\ result.block # "nullptr"
           THEN /\ memory_pools' = [memory_pools EXCEPT ![p] = result.pool]
                /\ held' = held \cup {[block |-> result.block, size |-> size]}
                /\ UNCHANGED heap_blocks
           ELSE /\ OperatorNew
                /\ held' = held \cup {[block |-> <<"heap", heap_blocks + 1>>, size |-> size]}
                /\ UNCHANGED memory_pools
    /\ MemUnchanged

\* GlobalMemoryPools::deallocate with the size the block was allocated
\* with: deallocate of the pool for the size, ::operator delete beyond
GlobalDeallocate(allocation) ==
    /\ allocation \in held
    /\ LET p == PoolFor(allocation.size)
       IN  IF p # "heap"
           THEN memory_pools' = [memory_pools EXCEPT ![p] = FixedDeallocate(@, allocation.block)]
           ELSE UNCHANGED memory_pools
    /\ held' = held \ {allocation}
    /\ UNCHANGED heap_blocks
    /\ MemUnchanged

NextMemory ==
    \/ \E size \in RequestSizes : GlobalAllocate(size)
    \/ \E block \in Blocks, size \in RequestSizes :
          GlobalDeallocate([block |-> block, size |-> size])

SpecMemory == Init /\ [][NextMemory]_vars

----------------------------------------------------------------------------
(* start() and stop() of one component (ArbitrageDetector with its         *)
(* detection thread; MarketDataManager with its statistics thread has the  *)
(* same code), called by several threads.  Each statement that reads or    *)
(* writes the atomic running_ is one step.                                 *)

\* What a call can change
ComponentState == <<component_running_, thread_handle, live_threads>>
InStop(c) == callers[c].pc \in {"stop_set", "stop_join"}
Returned(op, c, before, after, live) ==
    [op |-> op, caller |-> c, before |-> before, after |-> after, live |-> live,
     stopping |-> {o \in Callers \ {c} : InStop(o)}]

\* start(): if (running_) return;
StartEnter(c) ==
    /\ callers[c].pc = "idle"
    /\ IF component_running_
       THEN /\ lastReturn' = Returned("start", c, ComponentState, ComponentState,
                                      live_threads)
            /\ UNCHANGED callers
       ELSE /\ callers' = [callers EXCEPT ![c] = [pc |-> "start_set",
                                                  before |-> ComponentState]]
            /\ UNCHANGED lastReturn
    /\ UNCHANGED <<component_running_, thread_handle, live_threads, threads_started>>
    /\ UNCHANGED <<engineVars, bestVars, bookVars, adapterVars, feedVars>>

\* start(): running_ = true;
StartSet(c) ==
    /\ callers[c].pc = "start_set"
    /\ component_running_' = TRUE
    /\ callers' = [callers EXCEPT ![c].pc = "start_spawn"]
    /\ UNCHANGED <<thread_handle, live_threads, threads_started, lastReturn>>
    /\ UNCHANGED <<engineVars, bestVars, bookVars, adapterVars, feedVars>>

\* start(): detection_thread_ = std::make_unique<std::thread>(...).  The
\* new thread is created first; the thread object owned before is then
\* destroyed, and if it is joinable std::terminate ends the process.
StartSpawn(c) ==
    /\ callers[c].pc = "start_spawn"
    /\ threads_started < MaxThreads
    /\ LET id == threads_started + 1
       IN  /\ threads_started' = id
           /\ live_threads' = live_threads \cup {id}
           /\ thread_handle' = id
           /\ IF thread_handle # 0
              THEN /\ callers' = [o \in Callers |-> [pc |-> "terminated"]]
                   /\ UNCHANGED lastReturn
              ELSE /\ callers' = [callers EXCEPT ![c] = [pc |-> "idle"]]
                   /\ lastReturn' =
                         Returned("start", c, callers[c].before,
                                  <<component_running_, id, live_threads \cup {id}>>,
                                  live_threads \cup {id})
    /\ UNCHANGED component_running_
    /\ UNCHANGED <<engineVars, bestVars, bookVars, adapterVars, feedVars>>

\* The worker's loop: while (running_) { ... }
WorkerExit(t) ==
    /\ t \in live_threads
    /\ ~component_running_
    /\ \A c \in Callers : callers[c].pc # "terminated"
    /\ live_threads' = live_threads \ {t}
    /\ UNCHANGED <<component_running_, thread_handle, threads_started, callers,
                   lastReturn>>
    /\ UNCHANGED <<engineVars, bestVars, bookVars, adapterVars, feedVars>>

\* stop(): if (!running_) return;
StopEnter(c) ==
    /\ callers[c].pc = "idle"
    /\ IF ~component_running_
       THEN /\ lastReturn' = Returned("stop", c, ComponentState, ComponentState,
                                      live_threads)
            /\ UNCHANGED callers
       ELSE /\ callers' = [callers EXCEPT ![c] = [pc |-> "stop_set",
                                                  before |-> ComponentState]]
            /\ UNCHANGED lastReturn
    /\ UNCHANGED <<component_running_, thread_handle, live_threads, threads_started>>
    /\ UNCHANGED <<engineVars, bestVars, bookVars, adapterVars, feedVars>>

\* stop(): running_ = false;
StopSet(c) ==
    /\ callers[c].pc = "stop_set"
    /\ component_running_' = FALSE
    /\ callers' = [callers EXCEPT ![c].pc = "stop_join"]
    /\ UNCHANGED <<thread_handle, live_threads, threads_started, lastReturn>>
    /\ UNCHANGED <<engineVars, bestVars, bookVars, adapterVars, feedVars>>

\* stop(): if (detection_thread_ && detection_thread_->joinable())
\* detection_thread_->join(); the call returns once the thread has finished
StopJoin(c) ==
    /\ callers[c].pc = "stop_join"
    /\ thread_handle \notin live_threads
    /\ thread_handle' = 0
    /\ callers' = [callers EXCEPT ![c] = [pc |-> "idle"]]
    /\ lastReturn' = Returned("stop", c, callers[c].before,
                              <<component_running_, 0, live_threads>>, live_threads)
    /\ UNCHANGED <<component_running_, live_threads, threads_started>>
    /\ UNCHANGED <<engineVars, bestVars, bookVars, adapterVars, feedVars>>

NextLifecycle ==
    \/ \E c \in Callers : StartEnter(c)
    \/ \E c \in Callers : StartSet(c)
    \/ \E c \in Callers : StartSpawn(c)
    \/ \E t \in 1..MaxThreads : WorkerExit(t)
    \/ \E c \in Callers : StopEnter(c)
    \/ \E c \in Callers : StopSet(c)
    \/ \E c \in Callers : StopJoin(c)

SpecLifecycle == Init /\ [][NextLifecycle]_vars

----------------------------------------------------------------------------
(* Properties of the detector's emissions *)

\* The profit of an opportunity in basis points: profit_percentage * 100, as
\* MinProfitFilter reads it.  Every profit_percentage the detector builds has
\* a denominator that is a multiple of 100.
ProfitBps(opp) == Rat(opp.profit_percentage.n, opp.profit_percentage.d \div 100)

Kind(opp) == opp.id[1]

\* C1: every opportunity delivered to a registered consumer callback was
\* accepted by the risk gate; a rejected opportunity is never delivered.
C1_DeliveredWereAccepted ==
    \A i \in 1..Len(delivered) : delivered[i].verdict = "accept"

\* C1, the case of the claim: a consumer holds an opportunity that the risk
\* manager rejects for the position limit.
C1_RejectedDelivered ==
    \E i \in 1..Len(delivered) :
        /\ delivered[i].verdict = "position_limit"
        /\ Kind(delivered[i].opp) = "SPOT"

\* C2: every emitted opportunity has a profit in basis points of at least
\* the minimum profit configured when it was emitted, and its expiry
\* (timestamp + ttl) is not earlier than its timestamp.
C2_EmittedProfitAtLeastMinimum ==
    \A i \in 1..Len(emitted) :
        /\ RatGeq(ProfitBps(emitted[i].opp), Threshold(emitted[i].min_profit))
        /\ emitted[i].opp.timestamp + Ms(emitted[i].opp.ttl_ms) >= emitted[i].opp.timestamp

\* C2, the case of the claim: a synthetic opportunity emitted with a profit
\* below the configured minimum.
C2_SyntheticBelowMinimum ==
    \E i \in 1..Len(emitted) :
        /\ Kind(emitted[i].opp) = "SYNTHETIC"
        /\ RatLess(ProfitBps(emitted[i].opp), Threshold(emitted[i].min_profit))

\* C3: an opportunity whose expected profit after fees is zero or less is
\* neither stored in the live list nor passed to a callback.
C3_NoUnprofitableEmitted ==
    /\ \A i \in 1..Len(current_opportunities_) :
           RatGreater(current_opportunities_[i].expected_profit, Rat(0, 1))
    /\ \A i \in 1..Len(delivered) :
           RatGreater(delivered[i].opp.expected_profit, Rat(0, 1))

\* C3, the case of the claim: a synthetic opportunity with a negative
\* expected profit is in the live list and was passed to a callback.
C3_LossStoredAndDelivered ==
    \E i \in 1..Len(current_opportunities_), j \in 1..Len(delivered) :
        /\ current_opportunities_[i] = delivered[j].opp
        /\ Kind(delivered[j].opp) = "SYNTHETIC"
        /\ RatLess(delivered[j].opp.expected_profit, Rat(0, 1))

\* The entries a step appends to the emission record
NewlyEmitted == SubSeq(emitted', Len(emitted) + 1, Len(emitted'))

SpotPass == pc = "spot" /\ pc' = "synthetic"
SyntheticPass == pc = "synthetic" /\ pc' = "funding"
FundingPass == pc = "funding" /\ pc' = "cleanup"

\* The condition C4 states for a spot opportunity: the best ask and the best
\* bid are at different venues and gross_bps - 2 * fee is at least the minimum.
SpotShouldEmit(md, symbol, thr) ==
    LET prices == get_best_prices(md, symbol, "SPOT")
    IN  /\ prices.found
        /\ prices.best_bid_exchange # prices.best_ask_exchange
        /\ RatGeq(SpotNetProfitBps(prices), Threshold(thr))

\* C4: in a detection pass a spot opportunity is emitted for a symbol if and
\* only if the best ask and the best bid are at different venues and the
\* gross spread less twice the taker fee is at least the minimum profit; it
\* has two legs, a buy at the best-ask venue and price and a sell at the
\* best-bid venue and price, both for min(best ask size, best bid size).
C4_SpotEmittedIffAtLeastMinimum ==
    [][SpotPass =>
         \A s \in SymbolSet :
            LET prices == get_best_prices(market_data_, s, "SPOT")
                mine == {i \in 1..Len(NewlyEmitted) :
                            NewlyEmitted[i].opp.legs[1].symbol = s}
            IN  /\ (mine # {}) <=> SpotShouldEmit(market_data_, s, min_profit_threshold_)
                /\ \A i \in mine :
                      LET legs == NewlyEmitted[i].opp.legs
                          qty == Min(prices.best_ask_size, prices.best_bid_size)
                      IN  legs = << Leg(s, prices.best_ask_exchange, "BUY",
                                        prices.best_ask, qty, "SPOT", FALSE),
                                    Leg(s, prices.best_bid_exchange, "SELL",
                                        prices.best_bid, qty, "SPOT", FALSE) >>
      ]_vars

\* C4, the case of the claim: a spot pass over a cross-venue spread whose net
\* profit equals the minimum exactly ends with nothing emitted.
C4_BoundarySpreadNotEmitted ==
    /\ pc = "synthetic"
    /\ emitted = <<>>
    /\ LET prices == get_best_prices(market_data_, "BTC-USDT", "SPOT")
       IN  /\ prices.found
           /\ prices.best_bid_exchange # prices.best_ask_exchange
           /\ SpotNetProfitBps(prices).n * 1000
                  = min_profit_threshold_ * SpotNetProfitBps(prices).d

\* The venues that have data for the perpetual of a symbol
Offering(md, symbol) ==
    {e \in ExchangeSet : has_market_data(md, <<symbol, e, "PERPETUAL">>)}

RateAt(md, symbol, e) == get_market_data(md, <<symbol, e, "PERPETUAL">>).funding_rate

\* The condition C5 states: the spread of the funding rates over the
\* offering venues exceeds the minimum.
FundingShouldEmit(md, symbol, thr) ==
    \E lo \in Offering(md, symbol), hi \in Offering(md, symbol) :
        /\ \A e \in Offering(md, symbol) :
              /\ RateAt(md, symbol, lo) <= RateAt(md, symbol, e)
              /\ RateAt(md, symbol, e) <= RateAt(md, symbol, hi)
        /\ RatGreater(Rat(RateAt(md, symbol, hi) - RateAt(md, symbol, lo), 1),
                      Threshold(thr))

\* C5: a funding-spread opportunity is computed only across the venues that
\* have data for the perpetual: it is emitted when the spread of their rates
\* exceeds the minimum, long at the minimum-rate venue, short at the
\* maximum-rate venue, with a ttl of 8 hours.
C5_FundingOnlyAcrossOfferingVenues ==
    [][FundingPass =>
         \A s \in SymbolSet :
            LET here == Offering(market_data_, s)
                mine == {i \in 1..Len(NewlyEmitted) :
                            NewlyEmitted[i].opp.legs[1].symbol = s}
            IN  /\ (mine # {}) <=> FundingShouldEmit(market_data_, s, min_profit_threshold_)
                /\ \A i \in mine :
                      LET opp == NewlyEmitted[i].opp
                          long == opp.legs[1]
                          short == opp.legs[2]
                      IN  /\ long.side = "BUY" /\ short.side = "SELL"
                          /\ long.exchange \in here /\ short.exchange \in here
                          /\ \A e \in here :
                                /\ RateAt(market_data_, s, long.exchange)
                                       <= RateAt(market_data_, s, e)
                                /\ RateAt(market_data_, s, e)
                                       <= RateAt(market_data_, s, short.exchange)
                          /\ opp.ttl_ms = FUNDING_TTL_MS
      ]_vars

\* C5, the case of the claim: a funding opportunity whose long leg is at a
\* venue that has no data for the perpetual.
C5_LongLegAtVenueWithoutData ==
    \E i \in 1..Len(emitted) :
        /\ Kind(emitted[i].opp) = "FUNDING"
        /\ pc = "cleanup"
        /\ i = Len(emitted)
        /\ emitted[i].opp.legs[1].exchange
               \notin Offering(market_data_, emitted[i].opp.legs[1].symbol)

\* C6: in every synthetic opportunity the buy leg is on the cheaper of the
\* observed price and the synthetic fair value, the sell leg on the richer,
\* and the leg on the synthetic side is the one marked synthetic.
C6_SyntheticBuysCheaperSide ==
    [][SyntheticPass =>
         LET arbs == find_arbitrage_opportunities(market_data_, min_profit_threshold_)
         IN  /\ Len(NewlyEmitted) = Len(arbs)
             /\ \A i \in 1..Len(arbs) :
                   LET legs == NewlyEmitted[i].opp.legs
                       fair_below_spot ==
                           MispricingNum(arbs[i].fair_value, arbs[i].spot_price) < 0
                       buy == CHOOSE l \in {legs[1], legs[2]} : l.side = "BUY"
                       sell == CHOOSE l \in {legs[1], legs[2]} : l.side = "SELL"
                   IN  /\ legs[1].side # legs[2].side
                       /\ buy.is_synthetic <=> fair_below_spot
                       /\ sell.is_synthetic <=> ~fair_below_spot
                       /\ \A k \in 1..2 :
                             legs[k].is_synthetic <=> legs[k].type = arbs[i].synthetic_type
      ]_vars

\* C6, the case of the claim: a synthetic opportunity that buys the spot at
\* a price above the price of its synthetic leg.
C6_BuysRicherSide ==
    \E i \in 1..Len(emitted) :
        LET legs == emitted[i].opp.legs
        IN  /\ Kind(emitted[i].opp) = "SYNTHETIC"
            /\ legs[1].side = "BUY" /\ ~legs[1].is_synthetic
            /\ legs[2].side = "SELL" /\ legs[2].is_synthetic
            /\ legs[1].price > legs[2].price

----------------------------------------------------------------------------
(* Properties of the risk gate *)

Called == riskCall # NoData

\* The exposure an opportunity adds on a venue: price * quantity of its legs there
OpportunityExposureAt(opp, exchange) ==
    SumOver([i \in 1..Len(opp.legs) |-> opp.legs[i].price * opp.legs[i].quantity],
            {i \in 1..Len(opp.legs) : opp.legs[i].exchange = exchange})

LegVenues(opp) == {opp.legs[i].exchange : i \in 1..Len(opp.legs)}

\* Some venue of the legs would exceed its limit, by check_exchange_exposure
VenueExposureExceeded(call) ==
    \E e \in LegVenues(call.opp) :
        ~check_exchange_exposure(call.positions, call.exchange_limits, e,
                                 OpportunityExposureAt(call.opp, e))

\* The verdict of the six checks taken in the order C7 states, each check
\* decided as the risk manager's own function decides it.
OrderedVerdict(call) ==
    LET opp == call.opp
    IN  IF opp.execution_risk > MAX_EXECUTION_RISK THEN "execution_risk"
        ELSE IF opp.funding_risk > MAX_FUNDING_RATE_EXPOSURE THEN "funding_risk"
        ELSE IF opp.liquidity_score < MIN_LIQUIDITY_SCORE THEN "liquidity"
        ELSE IF \E i \in 1..Len(opp.legs) :
                    ~check_position_limit(call.positions, call.position_limits,
                                          opp.legs[i].symbol, opp.legs[i].quantity)
             THEN "position_limit"
        ELSE IF VenueExposureExceeded(call) THEN "venue_exposure"
        ELSE IF calculate_total_exposure(call.positions) + opp.required_capital
                    > call.max_exposure
             THEN "portfolio_exposure"
        ELSE "accept"

\* C7: the checks run in the order execution_risk, funding_risk, liquidity,
\* position_limit, venue_exposure, portfolio_exposure; the verdict is accept
\* only if all pass, and otherwise the first check in that order that fails.
C7_FirstFailingCheckInOrder ==
    Called => riskCall.verdict = OrderedVerdict(riskCall)

\* C7, the case of the claim: an opportunity that passes the first four
\* checks and fails the venue exposure check gets the verdict accept.
C7_VenueFailureAccepted ==
    /\ Called
    /\ OrderedVerdict(riskCall) = "venue_exposure"
    /\ riskCall.verdict = "accept"

SignedQuantity(leg) == IF leg.side = "BUY" THEN leg.quantity ELSE -leg.quantity

LimitFor(limits, symbol) ==
    IF symbol \in DOMAIN limits THEN limits[symbol] ELSE DEFAULT_POSITION_LIMIT

\* The position-limit check as C8 states it
LegWithinLimit(call, leg) ==
    Abs(CurrentPosition(call.positions, leg.symbol) + SignedQuantity(leg))
        <= LimitFor(call.position_limits, leg.symbol)

ReachesPositionCheck(call) ==
    /\ call.opp.execution_risk <= MAX_EXECUTION_RISK
    /\ call.opp.funding_risk <= MAX_FUNDING_RATE_EXPOSURE
    /\ call.opp.liquidity_score >= MIN_LIQUIDITY_SCORE

\* C8: the position-limit check passes for a leg exactly when
\* |current position + signed quantity| does not exceed the symbol's limit,
\* the default limit standing in for a symbol without one.
C8_PositionLimitOnSignedTotal ==
    (Called /\ ReachesPositionCheck(riskCall)) =>
        ( riskCall.verdict = "position_limit"
          <=> \E i \in 1..Len(riskCall.opp.legs) :
                  ~LegWithinLimit(riskCall, riskCall.opp.legs[i]) )

\* C8, the case of the claim: a sell leg that reduces a position at its
\* limit is rejected for the position limit.
C8_ReducingSellRejected ==
    /\ Called
    /\ ReachesPositionCheck(riskCall)
    /\ riskCall.verdict = "position_limit"
    /\ \A i \in 1..Len(riskCall.opp.legs) : LegWithinLimit(riskCall, riskCall.opp.legs[i])
    /\ \E i \in 1..Len(riskCall.opp.legs) : riskCall.opp.legs[i].side = "SELL"

\* The venue exposure after the opportunity, as C9 states it
ProjectedExposure(call, exchange) ==
    CurrentExchangeExposure(call.positions, exchange)
        + OpportunityExposureAt(call.opp, exchange)

ExceedsVenueLimit(call) ==
    \E e \in LegVenues(call.opp) :
        /\ e \in DOMAIN call.exchange_limits
        /\ ProjectedExposure(call, e) > call.exchange_limits[e]

\* C9: an opportunity is rejected if the projected exposure on a venue of
\* its legs would exceed that venue's exposure limit.
C9_VenueLimitRejects ==
    (Called /\ ExceedsVenueLimit(riskCall)) => riskCall.verdict # "accept"

\* C9, the case of the claim: an accepted opportunity whose projected
\* exposure on a venue is above the venue's limit.
C9_OverVenueLimitAccepted ==
    /\ Called
    /\ ExceedsVenueLimit(riskCall)
    /\ riskCall.verdict = "accept"

HasPerpetualLeg(opp) == \E i \in 1..Len(opp.legs) : opp.legs[i].type = "PERPETUAL"

\* C10: an opportunity with no perpetual leg is never rejected because of
\* its funding_risk value.
C10_FundingCheckOnlyForPerpetuals ==
    (Called /\ ~HasPerpetualLeg(riskCall.opp)) => riskCall.verdict # "funding_risk"

\* C10, the case of the claim: a spot-only opportunity rejected for funding risk.
C10_SpotRejectedForFunding ==
    /\ Called
    /\ ~HasPerpetualLeg(riskCall.opp)
    /\ riskCall.verdict = "funding_risk"

----------------------------------------------------------------------------
(* Properties of the live list *)

CleanupPass == pc = "cleanup" /\ pc' = "sleep"

\* created_at + ttl is in the past at time t
ExpiryInPast(opp, t) == opp.timestamp + Ms(opp.ttl_ms) < t

\* created_at + ttl lies a whole millisecond or more in the past at time t
ExpiryPastByMs(opp, t) == opp.timestamp + Ms(opp.ttl_ms + 1) <= t

CameFromList(opp) ==
    \E i \in 1..Len(current_opportunities_) : current_opportunities_[i] = opp

KeptInList(opp) ==
    \E j \in 1..Len(current_opportunities_') : current_opportunities_'[j] = opp

\* C11 as stated: after a cleanup pass the live list holds no opportunity
\* whose created_at + ttl is in the past, still holds every opportunity that
\* has not expired, and what consumers were handed is untouched.
C11_CleanupDropsExactlyTheExpired ==
    [][CleanupPass =>
         /\ \A j \in 1..Len(current_opportunities_') :
               /\ ~ExpiryInPast(current_opportunities_'[j], now')
               /\ CameFromList(current_opportunities_'[j])
         /\ \A i \in 1..Len(current_opportunities_) :
               ~ExpiryInPast(current_opportunities_[i], now')
                   => KeptInList(current_opportunities_[i])
         /\ delivered' = delivered
      ]_vars

\* C11 as amended: after a cleanup pass the live list holds no opportunity
\* whose created_at + ttl lies a whole millisecond or more in the past, still
\* holds every opportunity that has not expired, and what consumers were
\* handed is untouched.
C11_CleanupDropsExpiredByWholeMs ==
    [][CleanupPass =>
         /\ \A j \in 1..Len(current_opportunities_') :
               /\ ~ExpiryPastByMs(current_opportunities_'[j], now')
               /\ CameFromList(current_opportunities_'[j])
         /\ \A i \in 1..Len(current_opportunities_) :
               ~ExpiryInPast(current_opportunities_[i], now')
                   => KeptInList(current_opportunities_[i])
         /\ delivered' = delivered
      ]_vars

\* C11, its case: a cleanup pass has removed an expired opportunity that a
\* consumer still holds, and kept one that has not expired.
C11_ExpiredRemovedOthersKept ==
    /\ pc = "sleep"
    /\ expired_opportunities_ > 0
    /\ current_opportunities_ # <<>>
    /\ \E j \in 1..Len(delivered) :
          /\ ExpiryInPast(delivered[j].opp, now)
          /\ \A i \in 1..Len(current_opportunities_) :
                current_opportunities_[i] # delivered[j].opp

\* The bound the configuration sets on the live list; the smallest one
max_opportunity_queue == 1

\* C12: the live list never holds more than max_opportunity_queue
\* opportunities; an insertion into a full list drops the oldest one and
\* counts an overflow.
C12_LiveListBounded ==
    Len(current_opportunities_) <= max_opportunity_queue

\* C12, its case: the list is past the bound with every opportunity ever
\* emitted still in it, none dropped.
C12_ListGrowsPastBound ==
    /\ Len(current_opportunities_) > max_opportunity_queue
    /\ Len(current_opportunities_) = total_opportunities_
    /\ expired_opportunities_ = 0

----------------------------------------------------------------------------
(* Properties of get_best_prices *)

Holding(symbol, type) ==
    {e \in ExchangeSet : has_market_data(market_data_, <<symbol, e, type>>)}
TickerAt(symbol, e, type) == get_market_data(market_data_, <<symbol, e, type>>)
VenueIndex(e) == CHOOSE i \in 1..Len(Exchanges) : Exchanges[i] = e

\* C13: get_best_prices reports a result exactly when some venue holds a
\* record for the (symbol, instrument); the reported best bid is then the
\* highest bid and the reported best ask the lowest ask among those venues,
\* and the venue and size reported with each are those of a record that
\* quotes that price.
C13_BestPricesAreVenueExtremes ==
    bestCall # NoData =>
        LET p == bestCall.prices
            H == Holding(bestCall.symbol, bestCall.type)
            T(e) == TickerAt(bestCall.symbol, e, bestCall.type)
        IN  /\ p.found <=> H # {}
            /\ p.found =>
                 /\ \A e \in H : T(e).bid_price <= p.best_bid
                 /\ \A e \in H : T(e).ask_price >= p.best_ask
                 /\ p.best_bid_exchange \in H
                 /\ T(p.best_bid_exchange).bid_price = p.best_bid
                 /\ T(p.best_bid_exchange).bid_size = p.best_bid_size
                 /\ p.best_ask_exchange \in H
                 /\ T(p.best_ask_exchange).ask_price = p.best_ask
                 /\ T(p.best_ask_exchange).ask_size = p.best_ask_size

\* C13 case: two venues hold different tickers; the best bid comes from one
\* and the best ask from the other.
C13_BestAcrossTwoVenues ==
    /\ bestCall # NoData
    /\ bestCall.prices.found
    /\ Cardinality(Holding(bestCall.symbol, bestCall.type)) >= 2
    /\ \A e \in Holding(bestCall.symbol, bestCall.type) :
          TickerAt(bestCall.symbol, e, bestCall.type) \in TickerRecords
    /\ bestCall.prices.best_bid_exchange # bestCall.prices.best_ask_exchange

\* The venue preferred among those tied at a price: the largest size, and
\* among equal sizes the first of the fixed venue order.
PreferredVenue(tied, size(_)) ==
    CHOOSE e \in tied :
        \A o \in tied :
            \/ size(e) > size(o)
            \/ size(e) = size(o) /\ VenueIndex(e) <= VenueIndex(o)

\* C14: when several venues quote the same best bid (or the same best ask),
\* get_best_prices reports the one with the larger size at that price, and
\* the first in the fixed venue order only when the sizes are equal too.
\* Stated over the indexes whose records all come from ticker messages.
C14_TieBrokenBySizeThenOrder ==
    (/\ bestCall # NoData
     /\ bestCall.prices.found
     /\ \A e \in Holding(bestCall.symbol, bestCall.type) :
           TickerAt(bestCall.symbol, e, bestCall.type) \in TickerRecords) =>
        LET p == bestCall.prices
            H == Holding(bestCall.symbol, bestCall.type)
            T(e) == TickerAt(bestCall.symbol, e, bestCall.type)
            tiedBid == {e \in H : T(e).bid_price = p.best_bid}
            tiedAsk == {e \in H : T(e).ask_price = p.best_ask}
            BidSize(e) == T(e).bid_size
            AskSize(e) == T(e).ask_size
        IN  /\ Cardinality(tiedBid) >= 2 =>
                 p.best_bid_exchange = PreferredVenue(tiedBid, BidSize)
            /\ Cardinality(tiedAsk) >= 2 =>
                 p.best_ask_exchange = PreferredVenue(tiedAsk, AskSize)

\* C14 case: two venues' tickers quote the same best bid with different
\* sizes, and the venue reported is the one with the smaller size.
C14_SmallerSizeReported ==
    /\ bestCall # NoData
    /\ bestCall.prices.found
    /\ LET p == bestCall.prices
           H == Holding(bestCall.symbol, bestCall.type)
           T(e) == TickerAt(bestCall.symbol, e, bestCall.type)
       IN  /\ \A e \in H : T(e) \in TickerRecords
           /\ p.best_bid_exchange \in H
           /\ \E o \in H : /\ T(o).bid_price = p.best_bid
                           /\ T(o).bid_size > T(p.best_bid_exchange).bid_size

----------------------------------------------------------------------------
(* Properties of the order books *)

\* C15: once handle_orderbook_update has returned for a key, the book view
\* that get_order_book next returns for that key holds that update's bid and
\* ask levels (it is neither null, nor empty, nor an older book).
C15_ViewReflectsCompletedUpdate ==
    (bookView # NoData /\ bookView.completed # NoData) =>
        /\ bookView.book # NoData
        /\ bookView.book.bids = bookView.completed.bids
        /\ bookView.book.asks = bookView.completed.asks

\* C15 case: a view was obtained for a key after an update of that key had
\* completed, and get_order_book found the key.
C15_ViewAfterCompletedUpdate ==
    /\ bookView # NoData
    /\ bookView.completed \in BookUpdates
    /\ bookView.book # NoData

\* C16: a mid price read while another thread updates the book is computed
\* from a best bid and a best ask that belong to one and the same update.
C16_MidPriceFromOneUpdate ==
    (midRead # NoData /\ midRead.both) =>
        \E update \in BookUpdates :
            /\ update.bids[1] = midRead.bid
            /\ update.asks[1] = midRead.ask

\* C16 case: OrderBook::get_mid_price returned a mid price whose bid is the
\* best bid of one update and whose ask is the best ask of another.
C16_MidPriceMixesUpdates ==
    /\ midRead # NoData
    /\ midRead.target = "OrderBook"
    /\ midRead.both
    /\ \E u1 \in BookUpdates, u2 \in BookUpdates :
          /\ u1 # u2
          /\ u1.bids[1] = midRead.bid
          /\ u2.asks[1] = midRead.ask

----------------------------------------------------------------------------
(* Properties of the adapters *)

\* C17: every ticker or book write made for an adapter goes to a key that
\* carries that adapter's venue and the symbol and instrument kind of the
\* stream the event came from.
C17_WritesStayInOwnPartition ==
    lastWrite # NoData =>
        /\ lastWrite.key[2] = lastWrite.adapter
        /\ lastWrite.key[1] = lastWrite.symbol
        /\ lastWrite.key[3] = lastWrite.type

\* C17 case: a book update of a perpetual stream was written for an adapter.
C17_PerpetualBookWritten ==
    /\ lastWrite # NoData
    /\ lastWrite.channel = "books"
    /\ lastWrite.type = "PERPETUAL"
    /\ order_books_[lastWrite.key] # NoData

\* C18: once the manager's stop() has returned, every adapter is
\* disconnected with no io, heartbeat or reconnect thread left, and no
\* market-data event is written to the index any more.
C18_StoppedStaysDisconnected ==
    mdm_pc = "stopped" =>
        /\ \A a \in Adapters :
              /\ state_[a] = "DISCONNECTED"
              /\ ~io_thread[a]
              /\ heartbeat_thread[a] = "none"
              /\ reconnect_thread[a] = "none"
        /\ lastWrite # NoData => ~lastWrite.after_stop

\* C18 case: stop() has returned, and an adapter that was connected before
\* is connecting again through its heartbeat thread.
C18_ReconnectsAfterStop ==
    /\ mdm_pc = "stopped"
    /\ \E a \in Adapters :
          /\ state_[a] = "CONNECTING"
          /\ io_thread[a]
          /\ heartbeat_thread[a] = "sleeping"

----------------------------------------------------------------------------
(* Properties of start() and stop() *)

\* C19: a start() on a started component and a stop() on a stopped one
\* return without having changed anything, and a component never has more
\* than one worker thread.
C19_StartStopIdempotentOneThread ==
    /\ lastReturn # NoData =>
          /\ (lastReturn.op = "start" /\ lastReturn.before[1]) =>
                lastReturn.after = lastReturn.before
          /\ (lastReturn.op = "stop" /\ ~lastReturn.before[1]) =>
                lastReturn.after = lastReturn.before
    /\ Cardinality(live_threads) <= 1

\* C19 case: start() was called by two threads and each created a worker.
C19_TwoWorkerThreads ==
    /\ threads_started = 2
    /\ live_threads = {1, 2}

\* C20: a stop() that was called while another stop() was shutting the
\* component down returns only when that shutdown is finished: no worker
\* thread is left and the other call is no longer inside stop().
C20_SecondStopWaitsForFirst ==
    (/\ lastReturn # NoData
     /\ lastReturn.op = "stop"
     /\ ~lastReturn.before[1]
     /\ lastReturn.before[2] # 0) =>
        /\ lastReturn.live = {}
        /\ lastReturn.stopping = {}

\* C20 case: a stop() returned while another caller was still inside stop()
\* waiting for the worker thread.
C20_SecondStopReturnedEarly ==
    /\ lastReturn # NoData
    /\ lastReturn.op = "stop"
    /\ lastReturn.stopping # {}
    /\ lastReturn.live # {}
    /\ lastReturn.after = lastReturn.before

----------------------------------------------------------------------------
(* Properties of the reconnect policy *)

\* C21: whatever triggers a reconnect (close, failure, heartbeat timeout),
\* an adapter never makes more than MAX_RECONNECT_ATTEMPTS attempts.
C21_ReconnectAttemptsCapped ==
    \A a \in Adapters : reconnect_count_[a] <= MAX_RECONNECT_ATTEMPTS

\* C21 case: an adapter's heartbeat thread has just made an attempt beyond
\* the maximum, and the adapter is connecting again.
C21_AttemptBeyondMaximum ==
    \E a \in Adapters :
        /\ reconnect_count_[a] > MAX_RECONNECT_ATTEMPTS
        /\ heartbeat_thread[a] = "sleeping"
        /\ state_[a] = "CONNECTING"

\* C22: once a venue's adapter has used up its reconnect attempts, no best
\* bid and no best ask reported by get_best_prices comes from that venue.
C22_FailedVenueExcluded ==
    (bestCall # NoData /\ bestCall.prices.found) =>
        /\ bestCall.prices.best_bid_exchange \notin bestCall.failed
        /\ bestCall.prices.best_ask_exchange \notin bestCall.failed

\* C22 case: get_best_prices was called after a venue had failed for good
\* while the index held a ticker of that venue and one of a live venue.
C22_BestFromFailedVenue ==
    /\ bestCall # NoData
    /\ bestCall.prices.found
    /\ bestCall.failed # {}
    /\ \E a \in bestCall.failed :
          /\ TickerAt(bestCall.symbol, a, bestCall.type) \in TickerRecords
          /\ bestCall.prices.best_bid_exchange = a
          /\ bestCall.prices.best_bid = TickerAt(bestCall.symbol, a, bestCall.type).bid_price
    /\ \E e \in ExchangeSet \ bestCall.failed :
          TickerAt(bestCall.symbol, e, bestCall.type) \in TickerRecords

\* The OKX subscriptions asked for that were sent on the connection that is
\* open now
SentOnOpenConnection ==
    {s \in pending_subscriptions_ : sent_subscriptions[s] = reconnect_count_["OKX"]}

\* C23: whenever the OKX adapter is connected, every subscription that was
\* asked for, before or during any earlier connection, has been sent on the
\* connection that is open now.
C23_SubscriptionsSentOnceConnected ==
    state_["OKX"] = "CONNECTED" => pending_subscriptions_ \subseteq SentOnOpenConnection

\* C23 case: the adapter is connected again after a reconnect; one
\* subscription was asked for while the first connection was still opening,
\* another was sent on the first connection; neither is sent on this one.
C23_SubscriptionsLostAcrossConnections ==
    /\ state_["OKX"] = "CONNECTED"
    /\ reconnect_count_["OKX"] = 1
    /\ sent_subscriptions["BTC-USDT:books5"] = NeverSent
    /\ sent_subscriptions["BTC-USDT:tickers"] = 0
    /\ pending_subscriptions_ = Subscriptions

\* Properties of the Binance depth cache

\* The last depth update met an initialized cache and its first update id
\* directly follows the last id applied to the cache
InSequence ==
    /\ depthCall.before # NoData
    /\ depthCall.before.initialized
    /\ depthCall.update.U = depthCall.previous + 1

\* C24: a depth update is applied only to an initialized cache and only when
\* its first update id directly follows the last applied id; any other
\* update leaves the cache cleared and uninitialized, a snapshot requested.
C24_OutOfSequenceUpdateResetsCache ==
    (depthCall # NoData /\ ~InSequence) =>
        /\ ~depthCall.applied
        /\ depthCall.after.bids = {} /\ depthCall.after.asks = {}
        /\ ~depthCall.after.initialized
        /\ depthCall.snapshot_requested

\* C24 case: after update 1 was applied, update 3 arrived without update 2
\* and changed the cache and the book.
C24_GapUpdateApplied ==
    /\ depthCall # NoData
    /\ depthCall.previous = 1
    /\ depthCall.update.U = 3
    /\ depthCall.applied
    /\ depthCall.after.bids # depthCall.before.bids
    /\ order_books_[<<"BTC-USDT", "BINANCE", "SPOT">>].asks = <<PriceLevel(10008, 3), PriceLevel(10010, 1)>>

\* Properties of the stored books

\* Every book the program stores: the OrderBook and the books of the manager
StoredBooks == {order_book} \cup {order_books_[k] : k \in {k \in BookKeys : order_books_[k] # NoData}}

LevelsOf(book) == {book.bids[i] : i \in 1..Len(book.bids)} \cup {book.asks[i] : i \in 1..Len(book.asks)}

\* C25: no stored book holds a level whose quantity is 0 or less.
C25_NoStoredLevelWithoutQuantity ==
    \A book \in StoredBooks : \A level \in LevelsOf(book) : level.quantity > 0

\* C25 case: an update gave quantity 0 for a price; the OrderBook and the
\* manager's book both hold that price with quantity 0.
C25_ZeroQuantityLevelStored ==
    /\ PriceLevel(10005, 0) \in LevelsOf(order_book)
    /\ order_books_[<<"BTC-USDT", "OKX", "SPOT">>] # NoData
    /\ PriceLevel(10005, 0) \in LevelsOf(order_books_[<<"BTC-USDT", "OKX", "SPOT">>])

\* C26: a stored OrderBook with levels on both sides has its best bid
\* strictly below its best ask.
C26_StoredBookNotCrossed ==
    (order_book.bids # <<>> /\ order_book.asks # <<>>) =>
        order_book.bids[1].price < order_book.asks[1].price

\* C26 case: after an update whose best bid is above its best ask the
\* OrderBook holds both sides as given, and is_valid answers false.
C26_CrossedBookStored ==
    /\ order_book.bids = <<PriceLevel(10020, 1)>>
    /\ order_book.asks = <<PriceLevel(10000, 2)>>
    /\ ~is_valid(order_book)

\* Properties of calculate_vwap

\* The sweep the operation is specified by: from each level in turn, best
\* first, min(remaining, level quantity) is taken until the target is filled
RECURSIVE Sweep(_, _, _, _)
Sweep(levels, remaining, value, filled) ==
    IF levels = <<>> \/ remaining <= 0 THEN [value |-> value, filled |-> filled]
    ELSE LET qty == Min(remaining, Head(levels).quantity)
         IN  Sweep(Tail(levels), remaining - qty,
                   value + Head(levels).price * qty, filled + qty)

SweepOfCall == Sweep(vwapCall.levels, vwapCall.target_quantity, 0, 0)

\* The price returned is the average price of the sweep
AveragePriceOfSweep ==
    LET r == vwapCall.result.avg_price
    IN  IF SweepOfCall.filled = 0 THEN r.n = 0
        ELSE r.n * SweepOfCall.filled = SweepOfCall.value * r.d

\* C27: calculate_vwap returns the average price and the filled quantity of
\* the best-first sweep, and a flag that is set exactly when the side's
\* liquidity is below the target; the batched computation gives what the
\* level-by-level sweep gives.
C27_VwapReturnsSweepAndPartialFlag ==
    (vwapCall # NoData /\ vwapCall.target_quantity > 0) =>
        /\ AveragePriceOfSweep
        /\ DOMAIN vwapCall.result = {"avg_price", "filled_qty", "partial"}
        /\ vwapCall.result.filled_qty = SweepOfCall.filled
        /\ vwapCall.result.partial = (SweepOfCall.filled < vwapCall.target_quantity)

\* C27 case: a buy of 9 on a book whose five ask levels hold 6: the batch of
\* four and the fifth level are swept, and the caller gets the average price
\* of the 6 and nothing else.
C27_PartialFillReturnsPriceOnly ==
    /\ vwapCall # NoData
    /\ vwapCall.side = "BUY"
    /\ vwapCall.target_quantity = 9
    /\ Len(vwapCall.levels) = 5
    /\ SweepOfCall.filled = 6
    /\ AveragePriceOfSweep
    /\ DOMAIN vwapCall.result = {"avg_price"}

\* The price calculate_vwap returns is always the average price of the
\* sweep, whether the batched loop ran or not
VwapPriceIsSweepAverage ==
    vwapCall # NoData => AveragePriceOfSweep

\* Properties of the delivery to consumers

\* The opportunities a consumer's callback has received, in the order of
\* the calls
DeliveredTo(consumer) ==
    LET calls == SelectSeq(delivered, LAMBDA r : r.consumer = consumer)
    IN  [i \in 1..Len(calls) |-> calls[i].opp]

\* The opportunities the detector has produced, in the order of production
Produced == [i \in 1..Len(emitted) |-> emitted[i].opp]

\* C28: every registered consumer has received exactly the opportunities the
\* detector produced, each once, in the order of production.
C28_DeliveryInProductionOrder ==
    \A i \in 1..Len(callbacks_) : DeliveredTo(callbacks_[i]) = Produced

\* C28 case: the detector has produced two different opportunities, and the
\* registered consumer has received both.
C28_TwoOpportunitiesDelivered ==
    /\ Len(callbacks_) > 0
    /\ Len(emitted) >= 2
    /\ emitted[1].opp # emitted[2].opp
    /\ Len(DeliveredTo(callbacks_[1])) >= 2

\* C29: the detection thread never waits for a consumer: while a consumer is
\* handling an opportunity, or is blocked in handling it, the detection
\* thread is not inside notify_callbacks.
C29_ProducerNeverWaitsForConsumer ==
    \A c \in BusConsumers : consumer_state[c] # "idle" => notifier.pc = "idle"

\* C29 case: the first of two consumers is blocked in its callback after one
\* opportunity was published; the detection thread is still inside its call,
\* the second consumer has not been called, and nothing more is published.
C29_ProducerStuckBehindBlockedConsumer ==
    /\ Len(callbacks_) = 2
    /\ total_opportunities_ = 1
    /\ notifier.pc = "calling"
    /\ notifier.index = 1
    /\ consumer_state[callbacks_[1]] = "blocked"
    /\ consumer_state[callbacks_[2]] = "idle"
    /\ ~ENABLED NextBus

\* Properties of the order of detection

\* The place of a kind of opportunity in the order of a cycle
KindRank(kind) ==
    CASE kind = "SPOT" -> 1
      [] kind = "SYNTHETIC" -> 2
      [] kind = "FUNDING" -> 3
      [] OTHER -> 4

BeginsAfterOverrun ==
    /\ pc = "loop" /\ pc' = "spot"
    /\ cycles > 0
    /\ now - pass_start > Ms(DETECTION_PERIOD_MS)

\* C31: a pass that follows a pass longer than the detection period does
\* not begin at the instant the long pass ended.
C31_OverrunSkipsNextTick ==
    [][BeginsAfterOverrun => pass_start' > now]_vars

\* C31 case: the first pass began at 0 and ended a ttl and 100 ms later; the
\* second pass has begun at that same instant.
C31_PassBeganBackToBack ==
    /\ cycles = 2
    /\ pc = "spot"
    /\ pass_start = Ms(OPPORTUNITY_TTL_MS + 100)
    /\ now = pass_start

\* Properties of errors in callbacks

\* C32: whatever a consumer's callback throws, the detector is not ended by
\* it: the detection thread goes on to the remaining callbacks and the
\* remaining opportunities.
C32_CallbackErrorNeverEndsDetector ==
    notifier.pc # "terminated"

\* C32 case: the first of two consumers threw while the first opportunity
\* was delivered; the process was terminated, nothing was logged, and the
\* second consumer was never called.
C32_TerminatedByCallbackError ==
    /\ Len(callbacks_) = 2
    /\ notifier.pc = "terminated"
    /\ notifier.index = 1
    /\ total_opportunities_ = 0
    /\ callback_errors = 0
    /\ ~ENABLED NextBus

\* Properties of the execution risk

\* The execution risk the detector is specified to give, in hundredths: 30
\* when the legs span more than one venue, 20 for each synthetic leg, at
\* most 100
SpecifiedExecutionRisk(legs) ==
    LET venues == {legs[i].exchange : i \in 1..Len(legs)}
        synthetic_legs == {i \in 1..Len(legs) : legs[i].is_synthetic}
        risk == (IF Cardinality(venues) > 1 THEN 30 ELSE 0) + 20 * Cardinality(synthetic_legs)
    IN  IF risk > 100 THEN 100 ELSE risk

\* C33: every emitted opportunity carries the specified execution risk, a
\* value within [0, 1].
C33_ExecutionRiskAsSpecified ==
    \A i \in 1..Len(emitted) :
        /\ emitted[i].opp.execution_risk = SpecifiedExecutionRisk(emitted[i].opp.legs)
        /\ emitted[i].opp.execution_risk \in 0..100

\* C33 case: a synthetic opportunity was emitted with the pricer's 0.3 for
\* one synthetic leg on the venue of its spot leg, and a funding opportunity
\* with whatever its never-assigned field held.
C33_RiskNotFromLegs ==
    \E i, j \in 1..Len(emitted) :
        /\ Kind(emitted[i].opp) = "SYNTHETIC"
        /\ emitted[i].opp.execution_risk = 30
        /\ SpecifiedExecutionRisk(emitted[i].opp.legs) = 20
        /\ Kind(emitted[j].opp) = "FUNDING"
        /\ emitted[j].opp.execution_risk = 90
        /\ SpecifiedExecutionRisk(emitted[j].opp.legs) = 30

\* Properties of the risk manager's lock

\* C34: no thread waits for positions_mutex_ while it owns it, and no call
\* ends because it tried to lock the mutex it owned.
C34_NoLockOnOwnedMutex ==
    /\ \A t \in RiskThreads : risk_callers[t].pc # "self_deadlock"
    /\ riskReturn # NoData => riskReturn.outcome # "system_error"

\* C34 case: a thread called close_position for a position that is held and
\* waits for the mutex it owns; the position is still held, and no call of
\* any thread can take the mutex.
C34_ClosePositionDeadlocked ==
    \E t \in RiskThreads :
        /\ risk_callers[t].pc = "self_deadlock"
        /\ positions_mutex_ = t
        /\ "key" \in DOMAIN risk_callers[t]
        /\ positions_[risk_callers[t].key] # NoData
        /\ \A p \in RiskPositionInputs : ~ENABLED AddPositionLocked(p)

\* Properties of the adapter's threads

\* A thread waits for another one to end
WaitsFor(t, u) ==
    \/ t = "io" /\ okx_threads["io"] = "join_heartbeat" /\ u = "heartbeat"
         /\ okx_threads["heartbeat"] \notin {"none", "exited"}
    \/ t # "io" /\ okx_threads[t] = "join_io" /\ u = "io"
         /\ okx_threads["io"] \notin {"none", "exited"}

\* C35: the heartbeat thread and the io thread never wait for each other to
\* end, and no thread waits for itself to end.
C35_NoMutualJoin ==
    /\ ~(WaitsFor("heartbeat", "io") /\ WaitsFor("io", "heartbeat"))
    /\ \A t \in OkxThreads : ~WaitsFor(t, t)

\* C35 case: after a heartbeat timeout on an open connection the heartbeat
\* thread is inside reconnect() joining the io thread, the io thread is
\* inside on_close joining the heartbeat thread with connection_mutex_
\* held, and no step of the adapter is left.
C35_HeartbeatAndIoJoinEachOther ==
    /\ OkxAlive
    /\ okx_threads["heartbeat"] = "join_io"
    /\ okx_threads["io"] = "join_heartbeat"
    /\ okx.connection_mutex_ = "io"
    /\ okx_log.reconnects = 1 /\ okx.reconnect_count_ = 0
    /\ ~ENABLED NextJoin

\* C36: at most one thread of the adapter is inside reconnect() at a time,
\* and reconnect() is called, and reconnect_count_ raised, once for each
\* connection that was lost.
C36_OneReconnectPerLoss ==
    /\ Cardinality({t \in OkxThreads : InReconnect(t)}) <= 1
    /\ okx_log.reconnects <= okx_log.losses
    /\ okx.reconnect_count_ <= okx_log.losses

\* C36 case: one connection attempt failed after one heartbeat timeout; the
\* detached thread started by on_fail and the heartbeat thread are both
\* inside reconnect(), the third call for two lost connections.
C36_TwoReconnectsInProgress ==
    /\ OkxAlive
    /\ okx_log.losses = 2 /\ okx_log.reconnects = 3
    /\ InReconnect("heartbeat") /\ InReconnect("reconnect1")
    /\ okx.reconnect_count_ = 1

\* Properties of the trade and funding-rate updates

\* The quotes of a stored record
QuotesOf(d) == <<d.bid_price, d.ask_price, d.bid_size, d.ask_size>>

\* A step that applies a trade or a funding-rate update to a key that
\* holds a record
TradeOrFundingApplied ==
    /\ updates' = updates + 1
    /\ lastWrite'.channel \in {"trades", "funding-rate"}
    /\ market_data_[lastWrite'.key] # NoData

\* C37: a trade or funding-rate update leaves the bid and ask prices and
\* sizes stored under its key as they were.
C37_TradeAndFundingKeepQuotes ==
    [][TradeOrFundingApplied =>
         QuotesOf(market_data_'[lastWrite'.key]) = QuotesOf(market_data_[lastWrite'.key])]_vars

\* C37 case: a trade update was applied to a key that held a ticker's
\* record, and the record under the key no longer has the ticker's quotes.
C37_TradeReplacedTickerQuotes ==
    /\ lastWrite # NoData
    /\ lastWrite.channel = "trades"
    /\ lastWrite.replaced \in TickerRecords
    /\ QuotesOf(market_data_[lastWrite.key]) # QuotesOf(lastWrite.replaced)
    /\ market_data_[lastWrite.key].bid_price \in Indeterminate

\* Properties of the thread pool

\* A worker is about to call finished_condition_.notify_all(), or will be
\* once its task returns
NotifyAhead == \E w \in pool.workers_ : PoolPc(w) \in {"running", "notify_all"}

\* C38: a caller of wait_all never waits on finished_condition_ with the
\* queue empty and no task running unless a worker is still to notify it.
C38_NoLostWakeup ==
    (PoolPc("waiter") = "waiting" /\ AllFinished(pool)) => NotifyAhead

\* C38 case: the worker finished the last task between the predicate and
\* the wait of wait_all; the caller waits, every accepted task has run, the
\* queue is empty, no task runs, and every worker waits for a task.
C38_WaitAllMissedLastNotify ==
    /\ PoolPc("waiter") = "waiting"
    /\ AllFinished(pool)
    /\ pool_log.accepted = Tasks
    /\ \A task \in Tasks : pool_log.executed[task] = 1
    /\ \A w \in pool.workers_ : PoolPc(w) = "waiting"
    /\ ~pool.stop_ /\ PoolPc("submitter") = "idle"

\* The tasks in the queue
Queued == {pool.tasks_[i] : i \in 1..Len(pool.tasks_)}

FreeBlocks(p) == {memory_pools[p].free_list_[i] : i \in 1..Len(memory_pools[p].free_list_)}

\* C40: the allocated count of every fixed pool is within 0..NumBlocks, and
\* its free list holds blocks of its own storage only, each at most once.
C40_PoolCountAndFreeListSound ==
    \A p \in FixedPools :
        /\ memory_pools[p].allocated_count_ \in 0..NumBlocks
        /\ \A block \in FreeBlocks(p) : block[1] = p
        /\ Cardinality(FreeBlocks(p)) = Len(memory_pools[p].free_list_)

\* C40 case: the small pool was exhausted, a further block of the same size
\* came from ::operator new, and every block was given back with its size:
\* the heap block is on the pool's free list and the count has wrapped.
C40_HeapBlockOnFreeList ==
    /\ held = {}
    /\ heap_blocks = 1
    /\ <<"heap", 1>> \in FreeBlocks("small")
    /\ Len(memory_pools["small"].free_list_) = NumBlocks + 1
    /\ memory_pools["small"].allocated_count_ = 2 ^ SizeBits - 1

====
